---- MODULE Spec2Model ----
(***************************************************************************)
(* State-machine model of the dynamic glyph atlas cache                    *)
(* (src/src/render_storage/font/font_cache.rs).                            *)
(*                                                                         *)
(* Lengths are in pixels.  Scales, positions and tolerances, which are f32 *)
(* in the source, are fixed-point integers in thousandths.                 *)
(*                                                                         *)
(* The line layout of src/src/render_storage/font/helpers.rs follows the   *)
(* cache; its f32 lengths are whole pixels.                                *)
(***************************************************************************)
EXTENDS Integers, Sequences, FiniteSets, TLC

\* ---------------------------------------------------------------- bounds
\* Atlas dimensions given to CacheBuilder::dimensions (scaled down).
AtlasWidth == 12
AtlasHeight == 12
\* Largest number of glyphs handed to one cache_glyphs call.
MaxBatch == 2
\* Largest number of characters of a text given to AdvancedLayout::new_str.
MaxTextLen == 5

\* ------------------------------------------------------ program constants
\* CacheBuilder::default(): scale_tolerance 0.1, position_tolerance 0.1.
scale_tolerance == 100
position_tolerance == 100

VARIABLES
    \* struct Cache
    width, height, pad_glyphs, align_4x4,
    rows,                   \* LinkedHashMap<u32, Row>: sequence, front (LRU) first
    space_start_for_end,    \* HashMap<u32, u32>: gap end -> gap start
    space_end_for_start,    \* HashMap<u32, u32>: gap start -> gap end
    all_glyphs,             \* HashMap<LossyGlyphInfo, (row top, index in row)>
    \* the running cache_glyphs call
    pc,                     \* "idle", "per_glyph", "evict", "upload", "retry"
    glyphs,                 \* the batch of the current (or last) call
    retrying,               \* TRUE inside the recursive call of line 730
    queue_success, from_empty, in_use_rows, uncached_glyphs, draw_and_upload,
    \* observations
    result,                 \* what the last cache_glyphs call returned
    uploads,                \* uploader invocations of the current (or last) call
    pre,                    \* the cache as it was when the call was entered
    evicted,                \* rows popped by the eviction loop in the current run
    dropped,                \* keys dropped by eviction, not yet re-cached by a successful call
    same_as_prev,           \* the call repeats the batch of the successful call just before it
    observe_dropped,        \* whether dropped is kept (it is under SpecDropped)
    probe,                  \* the two requests made under SpecTolerance
    \* struct AdvancedLayout and the locals of compute (helpers.rs), under SpecLayout
    advanced_layout

cache_vars == <<width, height, pad_glyphs, align_4x4, rows, space_start_for_end,
                space_end_for_start, all_glyphs>>
call_vars == <<pc, glyphs, retrying, queue_success, from_empty, in_use_rows,
               uncached_glyphs, draw_and_upload>>
obs_vars == <<result, uploads, pre, evicted, dropped, same_as_prev, observe_dropped, probe, advanced_layout>>
vars == <<cache_vars, call_vars, obs_vars>>

\* ------------------------------------------------------------- utilities
EmptyMap == [k \in {} |-> 0]
MapInsert(m, k, v) == [x \in DOMAIN m \cup {k} |-> IF x = k THEN v ELSE m[x]]
MapRemove(m, k) == [x \in DOMAIN m \ {k} |-> m[x]]
Range(s) == {s[i] : i \in DOMAIN s}
\* every ordering of a finite set, as sequences
Orderings(S) == {s \in [1..Cardinality(S) -> S] : \A i, j \in DOMAIN s : i # j => s[i] # s[j]}

\* ------------------------------------------------------ glyphs (requests)
\* A PositionedGlyph: glyph id, scale (x, y) and position (x, y).
Glyph(id, sc, px) == [id |-> id, scale |-> <<sc, sc>>, position |-> <<px, 0>>]

\* The glyphs callers ask for.  GlyphQ and GlyphQ2 are the same glyph at
\* scales 10.00 and 10.04 and offsets 0.00 and 0.02.
GlyphQ == Glyph("Q", 10000, 0)
GlyphQ2 == Glyph("Q", 10040, 20)
GlyphP == Glyph("P", 10000, 0)
GlyphR == Glyph("R", 10000, 0)
GlyphE == Glyph("E", 10000, 0)
GlyphW == Glyph("W", 10000, 0)
GlyphX == Glyph("X", 10000, 0)
GlyphH == Glyph("H", 10000, 0)
GlyphSeq == <<GlyphQ, GlyphQ2, GlyphP, GlyphR, GlyphE, GlyphW, GlyphX, GlyphH>>
Glyphs == Range(GlyphSeq)

Some(w, h) == [some |-> TRUE, width |-> w, height |-> h]
None == [some |-> FALSE, width |-> 0, height |-> 0]

\* rusttype's PositionedGlyph::pixel_bounding_box: the rasterizer's answer,
\* None for a glyph without shape (whitespace).
pixel_bounding_box(g) ==
    CASE g.id = "Q" -> Some(3, 3)
      [] g.id = "P" -> Some(7, 5)
      [] g.id = "R" -> Some(7, 6)
      [] g.id = "W" -> Some(AtlasWidth, 1)
      [] g.id = "X" -> Some(AtlasWidth + 1, AtlasHeight + 1)
      [] g.id = "H" -> Some(1, AtlasHeight)
      [] OTHER -> None

\* f32::fract in thousandths: keeps the sign of its argument
fract(p) == IF p >= 0 THEN p % 1000 ELSE -((-p) % 1000)

normalised_offset_from_position(position) ==
    LET norm(o) == IF o > 500 THEN o - 1000 ELSE IF o < -500 THEN o + 1000 ELSE o
    IN <<norm(fract(position[1])), norm(fract(position[2]))>>

\* mutant of OverTolerance: the 0.5 that rounds to the nearest step is left out
OverTolerance_floor(x, tolerance, max) ==
    LET q == x \div tolerance
    IN IF x < 0 THEN 0 ELSE IF q > max THEN max ELSE q

\* (x / tolerance + 0.5) as u32, and as u16: the cast truncates and saturates
OverTolerance(x, tolerance, max) ==
    LET q == (2 * x + tolerance) \div (2 * tolerance)
    IN IF 2 * x + tolerance < 0 THEN 0 ELSE IF q > max THEN max ELSE q

\* mutant of lossy_info_for: the key keeps the scale and the offset as they are
lossy_info_exact(g) ==
    [font_id |-> 0,
     glyph_id |-> g.id,
     scale_over_tolerance |-> g.scale,
     offset_over_tolerance |-> normalised_offset_from_position(g.position)]

lossy_info_for(g) ==
    LET offset == normalised_offset_from_position(g.position)
    IN [font_id |-> 0,
        glyph_id |-> g.id,
        scale_over_tolerance |->
            <<OverTolerance(g.scale[1], scale_tolerance, 2147483647),
              OverTolerance(g.scale[2], scale_tolerance, 2147483647)>>,
        offset_over_tolerance |->
            <<OverTolerance(offset[1] + 500, position_tolerance, 65535),
              OverTolerance(offset[2] + 500, position_tolerance, 65535)>>]

\* ------------------------------------------------------------ rectangles
Rect(minx, miny, maxx, maxy) == [min |-> <<minx, miny>>, max |-> <<maxx, maxy>>]

\* PaddingAware::unpadded
unpadded(r) == Rect(r.min[1] + 1, r.min[2] + 1, r.max[1] - 1, r.max[2] - 1)

\* lines 590-597: the bounding box, plus the 1 pixel border when padding
unaligned_size(g, pad) ==
    LET bb == pixel_bounding_box(g)
    IN IF pad THEN <<bb.width + 2, bb.height + 2>> ELSE <<bb.width, bb.height>>

\* mutant of align4: the length is left as it is
align4_none(x) == x

\* (x + 3) & !3
align4(x) == ((x + 3) \div 4) * 4

\* lines 598-603
aligned_size(g, pad, align) ==
    LET u == unaligned_size(g, pad)
    IN IF align THEN <<align4(u[1]), align4(u[2])>> ELSE u

\* ------------------------------------------------------------------ rows
RowTops(rws) == {rws[i].top : i \in DOMAIN rws}
RowAt(rws, top) == rws[CHOOSE i \in DOMAIN rws : rws[i].top = top]

\* LinkedHashMap::get_refresh: move the entry to the most recently used end
get_refresh(rws, top) ==
    IF top \notin RowTops(rws) THEN rws
    ELSE LET Other(r) == r.top # top
         IN Append(SelectSeq(rws, Other), RowAt(rws, top))

\* lines 571-573, for one iteration order of the HashSet
RECURSIVE RefreshAll(_, _)
RefreshAll(rws, order) ==
    IF order = <<>> THEN rws
    ELSE RefreshAll(get_refresh(rws, Head(order)), Tail(order))

\* LinkedHashMap::insert: a new key goes to the most recently used end
rows_insert(rws, top, row) ==
    LET Other(r) == r.top # top
    IN Append(SelectSeq(rws, Other), row)


\* ------------------------------------------------------- free-space ledger
Ledger(efs, sfe) == [space_end_for_start |-> efs, space_start_for_end |-> sfe]

\* lines 618-625: the gaps tall enough for a new row; the HashMap is iterated
\* in an unspecified order, so any of them may be the first one found
fitting_gaps(efs, needed_height) ==
    {<<start, efs[start]>> : start \in {s \in DOMAIN efs : efs[s] - s >= needed_height}}

\* mutant of free_span: the free band that follows the row is merged into the
\* new one but its own entry is left in space_end_for_start
free_span_keeps_next(efs, sfe, top, row_height) ==
    LET end0 == top + row_height
        new_end == IF end0 \in DOMAIN efs THEN efs[end0] ELSE end0
        new_start == IF top \in DOMAIN sfe THEN sfe[top] ELSE top
        sfe1 == MapRemove(sfe, top)
    IN [gap |-> <<new_start, new_end>>,
        space_start_for_end |-> MapInsert(sfe1, new_end, new_start),
        space_end_for_start |-> MapInsert(efs, new_start, new_end)]

\* mutant of free_span: the span of the row becomes a band of its own
free_span_unmerged(efs, sfe, top, row_height) ==
    [gap |-> <<top, top + row_height>>,
     space_start_for_end |-> MapInsert(sfe, top + row_height, top),
     space_end_for_start |-> MapInsert(efs, top, top + row_height)]

\* lines 638-648: return the span of a removed row to the ledger, combined
\* with the neighbouring free space
free_span(efs, sfe, top, row_height) ==
    LET end0 == top + row_height
        new_end == IF end0 \in DOMAIN efs THEN efs[end0] ELSE end0
        efs1 == MapRemove(efs, end0)
        new_start == IF top \in DOMAIN sfe THEN sfe[top] ELSE top
        sfe1 == MapRemove(sfe, top)
    IN [gap |-> <<new_start, new_end>>,
        space_start_for_end |-> MapInsert(sfe1, new_end, new_start),
        space_end_for_start |-> MapInsert(efs1, new_start, new_end)]

\* lines 669-677: take the top of a gap for a row of the given height
fill_space(efs, sfe, gap, row_height) ==
    LET gap_start == gap[1]
        gap_end == gap[2]
        new_space_start == gap_start + row_height
        efs1 == MapRemove(efs, gap_start)
    IN IF new_space_start = gap_end
       THEN Ledger(efs1, MapRemove(sfe, gap_end))
       ELSE Ledger(MapInsert(efs1, new_space_start, gap_end),
                   MapInsert(sfe, gap_end, new_space_start))

\* mutant of new_row: the row is one pixel line lower than the glyph needs
new_row_short(top, row_height) ==
    [top |-> top, height |-> row_height - 1, width |-> 0, glyphs |-> <<>>]

\* lines 679-686
new_row(top, row_height) == [top |-> top, height |-> row_height, width |-> 0, glyphs |-> <<>>]

\* ------------------------------------------------------------- placement
\* mutant of find_row: the height of the row is not looked at
find_row_any_height(rws, aligned) ==
    LET fits == {i \in DOMAIN rws : width - rws[i].width >= aligned[1]}
    IN IF fits = {} THEN -1
       ELSE rws[CHOOSE i \in fits : \A j \in fits : j <= i].top

\* mutant of find_row: the least recently used row that fits is taken
find_row_oldest(rws, aligned) ==
    LET fits == {i \in DOMAIN rws :
                    rws[i].height >= aligned[2] /\ width - rws[i].width >= aligned[1]}
    IN IF fits = {} THEN -1
       ELSE rws[CHOOSE i \in fits : \A j \in fits : i <= j].top

\* lines 609-615: the first row, most recently used first, that is tall enough
\* and has the width left; 0 - 1 stands for None
find_row(rws, aligned) ==
    LET fits == {i \in DOMAIN rws :
                    rws[i].height >= aligned[2] /\ width - rws[i].width >= aligned[1]}
    IN IF fits = {} THEN -1
       ELSE rws[CHOOSE i \in fits : \A j \in fits : j <= i].top

\* mutant of place_glyph: the row's used width grows by the unaligned width
place_glyph_unaligned_advance(rws, ag, row_top, g) ==
    LET refreshed == get_refresh(rws, row_top)
        n == Len(refreshed)
        row == refreshed[n]
        aligned == aligned_size(g, pad_glyphs, align_4x4)
        unaligned == unaligned_size(g, pad_glyphs)
        info == [glyph_info |-> lossy_info_for(g),
                 offset |-> normalised_offset_from_position(g.position),
                 tex_coords |-> Rect(row.width, row_top, row.width + unaligned[1],
                                     row_top + unaligned[2])]
        row1 == [row EXCEPT !.glyphs = Append(@, info), !.width = @ + unaligned[1]]
    IN [rows |-> [refreshed EXCEPT ![n] = row1],
        all_glyphs |-> MapInsert(ag, lossy_info_for(g), <<row_top, Len(row1.glyphs) - 1>>),
        upload |-> [tex_coords |-> Rect(row.width, row_top, row.width + aligned[1],
                                        row_top + aligned[2]),
                    glyph |-> g]]

\* lines 689-713: put the glyph at the end of the row, which becomes the most
\* recently used one
place_glyph(rws, ag, row_top, g) ==
    LET refreshed == get_refresh(rws, row_top)
        n == Len(refreshed)
        row == refreshed[n]
        aligned == aligned_size(g, pad_glyphs, align_4x4)
        unaligned == unaligned_size(g, pad_glyphs)
        aligned_tex_coords ==
            Rect(row.width, row_top, row.width + aligned[1], row_top + aligned[2])
        unaligned_tex_coords ==
            Rect(row.width, row_top, row.width + unaligned[1], row_top + unaligned[2])
        info == [glyph_info |-> lossy_info_for(g),
                 offset |-> normalised_offset_from_position(g.position),
                 tex_coords |-> unaligned_tex_coords]
        row1 == [row EXCEPT !.glyphs = Append(@, info), !.width = @ + aligned[1]]
    IN [rows |-> [refreshed EXCEPT ![n] = row1],
        all_glyphs |-> MapInsert(ag, lossy_info_for(g), <<row_top, Len(row1.glyphs) - 1>>),
        upload |-> [tex_coords |-> aligned_tex_coords, glyph |-> g]]

\* mutant of too_large: a glyph as large as the atlas is let in
too_large_beyond(aligned) == aligned[1] > width \/ aligned[2] > height

\* mutant of too_large: no glyph is found too large
too_large_never(aligned) == FALSE

\* line 604
too_large(aligned) == aligned[1] >= width \/ aligned[2] >= height

\* mutant of gap_opens: the band has to be taller than the glyph
gap_opens_taller(gap, aligned_height) == gap[2] - gap[1] > aligned_height

\* line 649: the band formed by an eviction is tall enough for the new row
gap_opens(gap, aligned_height) == gap[2] - gap[1] >= aligned_height

\* mutants of may_evict: the in-use test left out, and the test inverted into
\* never evicting
may_evict_any(top, in_use) == TRUE
may_evict_none(top, in_use) == FALSE

\* line 630: the oldest row may go unless this batch uses it
may_evict(top, in_use) == top \notin in_use

\* ------------------------------------------------------------ rect_for
\* lines 748-798.  The pixel rectangle of lines 782-796 is a function of the
\* request and of the stored offset alone, so the stored offset stands for it.
GlyphNotCached == [ok |-> FALSE, some |-> FALSE]
NoRect == [ok |-> TRUE, some |-> FALSE]
IndexPanic == [ok |-> FALSE, some |-> FALSE, panic |-> TRUE]

rect_for_in(rws, ag, pad, g) ==
    IF ~pixel_bounding_box(g).some THEN NoRect
    ELSE IF lossy_info_for(g) \notin DOMAIN ag THEN GlyphNotCached
    ELSE LET at == ag[lossy_info_for(g)]
         IN IF at[1] \notin RowTops(rws) \/ at[2] + 1 \notin DOMAIN RowAt(rws, at[1]).glyphs
            THEN IndexPanic   \* self.rows[&row].glyphs[index] out of range
            ELSE LET info == RowAt(rws, at[1]).glyphs[at[2] + 1]
                     tex_rect == IF pad THEN unpadded(info.tex_coords) ELSE info.tex_coords
                 IN [ok |-> TRUE, some |-> TRUE,
                     uv_rect |-> [rect |-> tex_rect, over |-> <<width, height>>],
                     tex_offset |-> info.offset]

rect_for(g) == rect_for_in(rows, all_glyphs, pad_glyphs, g)


\* --------------------------------------------------------------- batches
\* The batches handed to cache_glyphs: up to MaxBatch distinct requests.  Their
\* order in the iterator is immaterial: in_use_rows is a set and the uncached
\* glyphs are sorted (line 578), equal heights in any order.
Batches == {b \in SUBSET Glyphs : Cardinality(b) <= MaxBatch}

\* mutant of is_cached: the lookup never finds the key
is_cached_never(ag, glyph_info) == FALSE

\* lines 561 and 585: the lookup of a glyph's key in all_glyphs
is_cached(ag, glyph_info) == glyph_info \in DOMAIN ag

\* mutant of uncached_part: requests without a shape are queued as well
uncached_part_unfiltered(batch, ag) ==
    {g \in batch : ~is_cached(ag, lossy_info_for(g))}

\* lines 556-566
cached_part(batch, ag) ==
    {g \in batch : pixel_bounding_box(g).some /\ is_cached(ag, lossy_info_for(g))}
uncached_part(batch, ag) ==
    {g \in batch : pixel_bounding_box(g).some /\ ~is_cached(ag, lossy_info_for(g))}

\* mutant of rows_in_use: the rows of the cached glyphs are not recorded
rows_in_use_forgotten(batch, ag) == {}

\* lines 561-562: the rows holding the glyphs of the batch that are cached
rows_in_use(batch, ag) == {ag[lossy_info_for(g)][1] : g \in cached_part(batch, ag)}

\* mutant of tallest_first: the glyphs are left in any order
unsorted(us) == Orderings(us)

\* lines 577-578: sort_unstable_by_key of the negated bounding box height
tallest_first(us) ==
    {s \in Orderings(us) :
        \A i, j \in DOMAIN s :
            i < j => pixel_bounding_box(s[i]).height >= pixel_bounding_box(s[j]).height}

Snapshot ==
    [rows |-> rows, space_start_for_end |-> space_start_for_end,
     space_end_for_start |-> space_end_for_start, all_glyphs |-> all_glyphs]

BatchKeys(batch) == {lossy_info_for(g) : g \in {x \in batch : pixel_bounding_box(x).some}}
RowKeys(row) == {row.glyphs[i].glyph_info : i \in DOMAIN row.glyphs}

\* the value of pre while no call has been made on the cache as it is
NoCall == [rows |-> <<>>, space_start_for_end |-> EmptyMap,
           space_end_for_start |-> EmptyMap, all_glyphs |-> EmptyMap]

\* mutants of is_empty: the cache is taken for empty always, and never
is_empty_always(ag) == TRUE
is_empty_never(ag) == FALSE

\* line 546: HashMap::is_empty of all_glyphs
is_empty(ag) == DOMAIN ag = {}

\* mutant of uploaded: the queue is uploaded whether or not it was placed whole
uploaded_regardless(queue_ok, queue) == queue

\* lines 716-722: the uploader calls made when the loop over the glyphs is left
uploaded(queue_ok, queue) == IF queue_ok THEN queue ELSE <<>>

\* mutant of remove_glyphs: the keys of the removed row stay in the index
remove_glyphs_none(ag, row) == ag

\* lines 634-636: the glyphs of a removed row leave the index
remove_glyphs(ag, row) == [k \in DOMAIN ag \ RowKeys(row) |-> ag[k]]

\* the value of probe while no two requests are being compared
NoProbe == <<>>

\* the value of advanced_layout while no text is being laid out
NoLayout == <<>>

\* ------------------------------------------------------------------ Init
\* CacheBuilder::build (lines 314-343) with the default flags (lines 175-176)
Built ==
    /\ width = AtlasWidth
    /\ height = AtlasHeight
    /\ pad_glyphs = TRUE
    /\ align_4x4 = FALSE
    /\ rows = <<>>
    /\ space_start_for_end = MapInsert(EmptyMap, AtlasHeight, 0)
    /\ space_end_for_start = MapInsert(EmptyMap, 0, AtlasHeight)
    /\ all_glyphs = EmptyMap
    /\ pc = "idle"
    /\ glyphs = {}
    /\ retrying = FALSE
    /\ queue_success = TRUE
    /\ from_empty = TRUE
    /\ in_use_rows = {}
    /\ uncached_glyphs = <<>>
    /\ draw_and_upload = <<>>
    /\ result = "none"
    /\ uploads = <<>>
    /\ pre = NoCall
    /\ evicted = {}
    /\ dropped = {}
    /\ same_as_prev = FALSE

Init == Built /\ observe_dropped = FALSE /\ probe = NoProbe /\ advanced_layout = NoLayout

\* ----------------------------------------------------------------- clear
\* rebuild is no cache_glyphs call: nothing is left to observe of the last one
Forget ==
    /\ glyphs' = {}
    /\ result' = "none"
    /\ uploads' = <<>>
    /\ pre' = NoCall
    /\ evicted' = {}
    /\ same_as_prev' = FALSE

\* mutant of cleared_all_glyphs: clear leaves the index as it is
all_glyphs_kept(ag) == ag

\* line 492
cleared_all_glyphs(ag) == EmptyMap

\* mutant of cleared_ledger: the maps are emptied and the band is not put back
cleared_ledger_empty(h) == Ledger(EmptyMap, EmptyMap)

\* lines 486-493
cleared_ledger(h) ==
    Ledger(MapInsert(EmptyMap, 0, h), MapInsert(EmptyMap, h, 0))

ClearCache(h) ==
    /\ rows' = <<>>
    /\ space_end_for_start' = cleared_ledger(h).space_end_for_start
    /\ space_start_for_end' = cleared_ledger(h).space_start_for_end
    /\ all_glyphs' = cleared_all_glyphs(all_glyphs)

Clear ==
    /\ pc = "idle"
    /\ ClearCache(height)
    /\ glyphs' = {}
    /\ result' = "none"
    /\ uploads' = <<>>
    /\ pre' = Snapshot       \* the cache that was cleared
    /\ evicted' = {}
    /\ same_as_prev' = FALSE
    /\ UNCHANGED <<width, height, pad_glyphs, align_4x4, pc, retrying, queue_success,
                   from_empty, in_use_rows, uncached_glyphs, draw_and_upload, dropped,
                   observe_dropped, probe, advanced_layout>>

\* CacheBuilder::rebuild (lines 361-377): new attributes, then clear
Rebuild(pad, align) ==
    /\ pc = "idle"
    /\ width' = AtlasWidth
    /\ height' = AtlasHeight
    /\ pad_glyphs' = pad
    /\ align_4x4' = align
    /\ rows' = <<>>
    /\ space_end_for_start' = cleared_ledger(AtlasHeight).space_end_for_start
    /\ space_start_for_end' = cleared_ledger(AtlasHeight).space_start_for_end
    /\ all_glyphs' = EmptyMap
    /\ Forget
    /\ UNCHANGED <<pc, retrying, queue_success, from_empty, in_use_rows, uncached_glyphs,
                   draw_and_upload, dropped, observe_dropped, probe, advanced_layout>>

\* ---------------------------------------------------------- cache_glyphs
\* lines 545-581: entering cache_glyphs on the cache (rws, ag)
Enter(batch, rws, ag) ==
    /\ queue_success' = TRUE
    /\ from_empty' = is_empty(ag)
    /\ in_use_rows' = rows_in_use(batch, ag)
    /\ \E order \in Orderings(in_use_rows') : rows' = RefreshAll(rws, order)
    /\ uncached_glyphs' \in tallest_first(uncached_part(batch, ag))
    /\ draw_and_upload' = <<>>
    /\ evicted' = {}
    /\ pc' = "per_glyph"

CacheGlyphs(batch) ==
    /\ pc = "idle"
    /\ glyphs' = batch
    /\ retrying' = FALSE
    /\ Enter(batch, rows, all_glyphs)
    /\ pre' = Snapshot
    /\ uploads' = <<>>
    /\ same_as_prev' = (batch = glyphs /\ result \in {"Adding", "Reordering"})
    /\ UNCHANGED <<width, height, pad_glyphs, align_4x4, space_start_for_end,
                   space_end_for_start, all_glyphs, result, dropped, observe_dropped, probe, advanced_layout>>

\* mutant of returned: the retry's Ok is passed on as it is
returned_unmapped(retry, res) == res

\* lines 725-730: what the caller gets when the run returns res; the frame that
\* retried maps Ok to Reordering
returned(retry, res) == IF retry /\ res = "Adding" THEN "Reordering" ELSE res

\* the call returns res: its locals are gone
Return(res) ==
    /\ pc' = "idle"
    /\ result' = returned(retrying, res)
    /\ dropped' = IF res = "Adding" THEN dropped \ BatchKeys(glyphs) ELSE dropped
    /\ retrying' = FALSE
    /\ queue_success' = TRUE
    /\ from_empty' = TRUE
    /\ in_use_rows' = {}
    /\ uncached_glyphs' = <<>>
    /\ draw_and_upload' = <<>>

\* lines 689-713 for the glyph at the head of the queue, on the cache (rws, ag)
Place(rws, ag, row_top) ==
    LET p == place_glyph(rws, ag, row_top, Head(uncached_glyphs))
    IN /\ rows' = p.rows
       /\ all_glyphs' = p.all_glyphs
       /\ draw_and_upload' = Append(draw_and_upload, p.upload)
       /\ in_use_rows' = in_use_rows \cup {row_top}
       /\ uncached_glyphs' = Tail(uncached_glyphs)
       /\ pc' = "per_glyph"

\* lines 668-713: open a row in the gap and put the glyph there
NewRow(rws, efs, sfe, ag, gap) ==
    LET aligned == aligned_size(Head(uncached_glyphs), pad_glyphs, align_4x4)
        l == fill_space(efs, sfe, gap, aligned[2])
    IN /\ space_end_for_start' = l.space_end_for_start
       /\ space_start_for_end' = l.space_start_for_end
       /\ Place(rows_insert(rws, gap[1], new_row(gap[1], aligned[2])), ag, gap[1])

\* one iteration of 'per_glyph (lines 583-625), up to the eviction loop
PerGlyph ==
    /\ pc = "per_glyph"
    /\ uncached_glyphs # <<>>
    /\ LET g == Head(uncached_glyphs)
           aligned == aligned_size(g, pad_glyphs, align_4x4)
           row_top == find_row(rows, aligned)
           gaps == fitting_gaps(space_end_for_start, aligned[2])
       IN IF is_cached(all_glyphs, lossy_info_for(g))
          THEN \* cached by a previous iteration
               /\ uncached_glyphs' = Tail(uncached_glyphs)
               /\ UNCHANGED <<cache_vars, pc, glyphs, retrying, queue_success, from_empty,
                              in_use_rows, draw_and_upload, obs_vars>>
          ELSE IF too_large(aligned)
          THEN /\ Return("GlyphTooLarge")
               /\ UNCHANGED <<cache_vars, glyphs, uploads, pre, evicted, same_as_prev,
                              observe_dropped, probe, advanced_layout>>
          ELSE IF row_top # -1
          THEN /\ Place(rows, all_glyphs, row_top)
               /\ UNCHANGED <<width, height, pad_glyphs, align_4x4, space_start_for_end,
                              space_end_for_start, glyphs, retrying, queue_success,
                              from_empty, obs_vars>>
          ELSE IF gaps # {}
          THEN /\ \E gap \in gaps :
                     NewRow(rows, space_end_for_start, space_start_for_end, all_glyphs, gap)
               /\ UNCHANGED <<width, height, pad_glyphs, align_4x4, glyphs, retrying,
                              queue_success, from_empty, obs_vars>>
          ELSE /\ pc' = "evict"
               /\ UNCHANGED <<cache_vars, glyphs, retrying, queue_success, from_empty,
                              in_use_rows, uncached_glyphs, draw_and_upload, obs_vars>>

\* one iteration of the eviction loop (lines 628-666) for the glyph at the head
\* of the queue, followed by lines 668-713 when the loop ends with a gap
Evict ==
    /\ pc = "evict"
    /\ LET aligned == aligned_size(Head(uncached_glyphs), pad_glyphs, align_4x4)
           front == Head(rows)
           f == free_span(space_end_for_start, space_start_for_end, front.top, front.height)
           ag == remove_glyphs(all_glyphs, front)
       IN IF rows = <<>>
          THEN \* the loop ends without a gap: gap.unwrap() panics
               /\ pc' = "panic"
               /\ UNCHANGED <<cache_vars, glyphs, retrying, queue_success, from_empty,
                              in_use_rows, uncached_glyphs, draw_and_upload, obs_vars>>
          ELSE IF may_evict(front.top, in_use_rows)
          THEN /\ evicted' = evicted \cup {front}
               /\ dropped' = IF observe_dropped THEN dropped \cup RowKeys(front) ELSE dropped
               /\ IF gap_opens(f.gap, aligned[2])
                  THEN NewRow(Tail(rows), f.space_end_for_start, f.space_start_for_end,
                              ag, f.gap)
                  ELSE /\ rows' = Tail(rows)
                       /\ all_glyphs' = ag
                       /\ space_end_for_start' = f.space_end_for_start
                       /\ space_start_for_end' = f.space_start_for_end
                       /\ UNCHANGED <<pc, in_use_rows, uncached_glyphs, draw_and_upload>>
               /\ UNCHANGED <<width, height, pad_glyphs, align_4x4, glyphs, retrying,
                              queue_success, from_empty, result, uploads, pre,
                              same_as_prev, observe_dropped, probe, advanced_layout>>
          ELSE IF from_empty
          THEN /\ Return("NoRoomForWholeQueue")
               /\ UNCHANGED <<cache_vars, glyphs, uploads, pre, evicted, same_as_prev,
                              observe_dropped, probe, advanced_layout>>
          ELSE \* break 'per_glyph with queue_success = false
               /\ queue_success' = FALSE
               /\ pc' = "retry"
               /\ UNCHANGED <<cache_vars, glyphs, retrying, from_empty, in_use_rows,
                              uncached_glyphs, draw_and_upload, obs_vars>>

\* lines 716-726: every glyph was placed; rasterize and upload, return Ok
Upload ==
    /\ pc = "per_glyph"
    /\ uncached_glyphs = <<>>
    /\ uploads' = uploads \o uploaded(queue_success, draw_and_upload)
    /\ Return("Adding")
    /\ UNCHANGED <<cache_vars, glyphs, pre, evicted, same_as_prev, observe_dropped, probe, advanced_layout>>

\* lines 716-730 with queue_success false: nothing is uploaded, the cache is
\* cleared and cache_glyphs is called again
Retry ==
    /\ pc = "retry"
    /\ space_end_for_start' = cleared_ledger(height).space_end_for_start
    /\ space_start_for_end' = cleared_ledger(height).space_start_for_end
    /\ all_glyphs' = cleared_all_glyphs(all_glyphs)
    /\ retrying' = TRUE
    /\ Enter(glyphs, <<>>, cleared_all_glyphs(all_glyphs))
    /\ uploads' = uploads \o uploaded(queue_success, draw_and_upload)
    /\ UNCHANGED <<width, height, pad_glyphs, align_4x4, glyphs, result, pre,
                   dropped, same_as_prev, observe_dropped, probe, advanced_layout>>

Next ==
    \/ \E batch \in Batches : CacheGlyphs(batch)
    \/ PerGlyph
    \/ Evict
    \/ Upload
    \/ Retry
    \/ Clear
    \/ \E pad \in BOOLEAN, align \in BOOLEAN : Rebuild(pad, align)

Spec == Init /\ [][Next]_vars

\* the same program, keeping the record of the keys eviction has dropped
InitDropped ==
    Built /\ observe_dropped = TRUE /\ probe = NoProbe /\ advanced_layout = NoLayout
SpecDropped == InitDropped /\ [][Next]_vars


\* ------------------------------------------------ requests close together
\* The same program, asked for two renderings of one glyph: scales around
\* 10.0 and positions whose fractional parts lie around 0.0 and 0.5.
ProbeScales == {9980, 10000, 10040, 10060}
ProbePositions == {0, 40, 60, 520, 1040}
ProbeRequests == {Glyph("Q", sc, px) : sc \in ProbeScales, px \in ProbePositions}

InitTolerance ==
    /\ Built
    /\ observe_dropped = FALSE
    /\ probe \in {[a |-> a, b |-> b] : a \in ProbeRequests, b \in ProbeRequests}
    /\ advanced_layout = NoLayout

\* cache_glyphs for the two requests
CacheProbe == CacheGlyphs({probe.a, probe.b})

NextTolerance ==
    \/ CacheProbe
    \/ PerGlyph
    \/ Upload
    \/ Clear

SpecTolerance == InitTolerance /\ [][NextTolerance]_vars

\* ------------------------------------------------- what the claims speak of
\* a cache_glyphs call has returned and nothing was called since
Returned == pc = "idle" /\ result # "none"
ReturnedOk == pc = "idle" /\ result \in {"Adding", "Reordering"}
NonEmpty(batch) == {g \in batch : pixel_bounding_box(g).some}
Resident(ag, g) == lossy_info_for(g) \in DOMAIN ag
\* the atlas rectangle stored for a resident key
TexCoords(rws, ag, k) == RowAt(rws, ag[k][1]).glyphs[ag[k][2] + 1].tex_coords
\* the horizontal span a stored glyph was allotted: its width as aligned
AllocatedSpan(info) ==
    LET w == info.tex_coords.max[1] - info.tex_coords.min[1]
    IN <<info.tex_coords.min[1],
         info.tex_coords.min[1] + (IF align_4x4 THEN align4(w) ELSE w)>>
Disjoint(a, b) == a[2] <= b[1] \/ b[2] <= a[1]
RowSpan(row) == <<row.top, row.top + row.height>>

\* C1: after a cache_glyphs call that returned Ok (Adding or Reordering),
\* rect_for gives Ok(Some(..)) for every request of the batch whose bounding
\* box is not empty.
C1_BatchResident ==
    ReturnedOk => \A g \in NonEmpty(glyphs) : rect_for(g).ok /\ rect_for(g).some

\* C1 witness: a call that had to clear and repack returned Reordering for a
\* batch of two glyphs, both now resident.
C1_Witness ==
    /\ pc = "idle" /\ result = "Reordering"
    /\ Cardinality(BatchKeys(glyphs)) = 2
    /\ \A g \in NonEmpty(glyphs) : rect_for(g).some

\* C2: after cache_glyphs returned GlyphTooLarge the rows with their glyphs,
\* the free-space ledger and the glyph index are what they were before the call.
C2_TooLargeLeavesCache ==
    (pc = "idle" /\ result = "GlyphTooLarge") =>
        /\ Range(rows) = Range(pre.rows)
        /\ space_end_for_start = pre.space_end_for_start
        /\ space_start_for_end = pre.space_start_for_end
        /\ all_glyphs = pre.all_glyphs

\* C3: after cache_glyphs returned NoRoomForWholeQueue the cache is as it was
\* before the call or cleared, and no glyph placed by the failed attempt is
\* resident.
C3_NoRoomLeavesCache ==
    (pc = "idle" /\ result = "NoRoomForWholeQueue") =>
        /\ \/ /\ Range(rows) = Range(pre.rows)
              /\ space_end_for_start = pre.space_end_for_start
              /\ space_start_for_end = pre.space_start_for_end
              /\ all_glyphs = pre.all_glyphs
           \/ /\ rows = <<>>
              /\ all_glyphs = EmptyMap
              /\ space_end_for_start = cleared_ledger(height).space_end_for_start
              /\ space_start_for_end = cleared_ledger(height).space_start_for_end
        /\ \A g \in NonEmpty(glyphs) : Resident(all_glyphs, g) => Resident(pre.all_glyphs, g)

\* C4: in every state no two rows overlap vertically, and within a row no two
\* glyphs' allotted horizontal spans overlap.
C4_NoOverlap ==
    /\ \A i, j \in DOMAIN rows : i # j => Disjoint(RowSpan(rows[i]), RowSpan(rows[j]))
    /\ \A i \in DOMAIN rows :
          \A a, b \in DOMAIN rows[i].glyphs :
              a # b => Disjoint(AllocatedSpan(rows[i].glyphs[a]),
                                AllocatedSpan(rows[i].glyphs[b]))

\* C4 witness: two rows, one of them holding two glyphs.
C4_Witness ==
    /\ Len(rows) >= 2
    /\ \E i \in DOMAIN rows : Len(rows[i].glyphs) >= 2

\* C5: in every state the row spans and the free bands of the ledger cover
\* [0, atlas height) exactly: every pixel line lies in exactly one of them and
\* none of them reaches outside.
C5_LedgerTiling ==
    /\ \A y \in 0..(height - 1) :
          Cardinality({i \in DOMAIN rows : rows[i].top <= y /\ y < rows[i].top + rows[i].height})
          + Cardinality({st \in DOMAIN space_end_for_start :
                            st <= y /\ y < space_end_for_start[st]}) = 1
    /\ \A i \in DOMAIN rows : rows[i].top >= 0 /\ rows[i].top + rows[i].height <= height
    /\ \A st \in DOMAIN space_end_for_start :
          st >= 0 /\ st < space_end_for_start[st] /\ space_end_for_start[st] <= height

\* C5 witness: after an eviction merged a freed span, rows and a free band
\* share the atlas.
C5_Witness ==
    /\ evicted # {}
    /\ Len(rows) >= 2
    /\ DOMAIN space_end_for_start # {}

\* C6: a row touched by the running batch (it holds a glyph of the batch, cached
\* before or placed by this run) is never evicted by that run.
C6_InUseProtected ==
    \A row \in evicted : RowKeys(row) \cap BatchKeys(glyphs) = {}

\* C6 witness: the eviction loop removed a row while another row was in use by
\* the batch.
C6_Witness ==
    /\ evicted # {}
    /\ in_use_rows # {}
    /\ \E i \in DOMAIN rows : RowKeys(rows[i]) \cap BatchKeys(glyphs) # {}

\* C7: a glyph dropped by a row eviction stays unknown to rect_for
\* (GlyphNotCached) until a later cache_glyphs call with that glyph in its batch
\* succeeds.
C7_EvictedStaysOut ==
    pc = "idle" => \A k \in dropped : k \notin DOMAIN all_glyphs

\* C8: a successful cache_glyphs call repeated at once with the same batch
\* returns Adding, and rect_for answers every request as it did after the first
\* call.
C8_Idempotent ==
    (pc = "idle" /\ same_as_prev) =>
        /\ result = "Adding"
        /\ \A g \in glyphs :
              rect_for(g) = rect_for_in(pre.rows, pre.all_glyphs, pad_glyphs, g)

\* C8 witness: the repeated batch holds two glyphs with a rectangle each.
C8_Witness ==
    /\ pc = "idle" /\ same_as_prev
    /\ Cardinality(BatchKeys(glyphs)) = 2
    /\ \A g \in NonEmpty(glyphs) : rect_for(g).some

\* the case of C9: the call that returned was given one glyph, not cached, and
\* found an atlas holding rows, with no row and no free band that had room for
\* the glyph
C9_Case ==
    /\ Returned
    /\ Cardinality(glyphs) = 1
    /\ pre.rows # <<>>
    /\ \A g \in glyphs :
          /\ pixel_bounding_box(g).some
          /\ ~Resident(pre.all_glyphs, g)
          /\ find_row(pre.rows, aligned_size(g, pad_glyphs, align_4x4)) = -1
          /\ fitting_gaps(pre.space_end_for_start,
                          aligned_size(g, pad_glyphs, align_4x4)[2]) = {}

\* C9 as stated: with the atlas full (no free band is left and no row has
\* room), a batch of one more glyph, one that fits the atlas, returns Reordering.
C9_FullAtlasReorders ==
    (/\ C9_Case
     /\ DOMAIN pre.space_end_for_start = {}
     /\ \A g \in glyphs : ~too_large(aligned_size(g, pad_glyphs, align_4x4)))
        => result = "Reordering"

\* C9 amended: with the atlas full (no row and no free band has room for the
\* glyph), a batch of one more glyph returns Adding (the least recently used
\* rows are evicted), or GlyphTooLarge when the glyph cannot fit the atlas at
\* all; it never returns Reordering.
C9_FullAtlasAddsByEviction ==
    C9_Case =>
        \A g \in glyphs :
            result = IF too_large(aligned_size(g, pad_glyphs, align_4x4))
                     THEN "GlyphTooLarge" ELSE "Adding"

\* C9 witness: no free band at all was left, rows were evicted and the call
\* returned Adding.
C9_Witness ==
    /\ C9_Case
    /\ DOMAIN pre.space_end_for_start = {}
    /\ evicted # {}
    /\ result = "Adding"

\* C10: when cache_glyphs returned Adding, every glyph of the batch that was
\* resident before the call still is, and every glyph resident before and after
\* the call has the atlas rectangle it had.
C10_AddingKeepsRects ==
    (pc = "idle" /\ result = "Adding") =>
        /\ \A g \in NonEmpty(glyphs) :
              Resident(pre.all_glyphs, g) => Resident(all_glyphs, g)
        /\ \A k \in DOMAIN pre.all_glyphs \cap DOMAIN all_glyphs :
              TexCoords(rows, all_glyphs, k) = TexCoords(pre.rows, pre.all_glyphs, k)

\* C10 witness: Adding was returned after evicting a row, with a glyph of the
\* batch resident before and after.
C10_Witness ==
    /\ pc = "idle" /\ result = "Adding"
    /\ evicted # {}
    /\ \E g \in NonEmpty(glyphs) : Resident(pre.all_glyphs, g) /\ Resident(all_glyphs, g)

\* the keys the uploader was called for during the current (or last) call
UploadedKeys == {lossy_info_for(uploads[i].glyph) : i \in DOMAIN uploads}

\* C11: when cache_glyphs returned Reordering, the resident glyphs are exactly
\* the distinct keys of the batch's non-empty glyphs (no row holds any other
\* glyph), and each of them was uploaded during this call, to the place where
\* it now lies.
C11_ReorderingRepacks ==
    (pc = "idle" /\ result = "Reordering") =>
        /\ DOMAIN all_glyphs = BatchKeys(glyphs)
        /\ \A i \in DOMAIN rows : RowKeys(rows[i]) \subseteq BatchKeys(glyphs)
        /\ UploadedKeys = BatchKeys(glyphs)
        /\ \A i \in DOMAIN uploads :
              uploads[i].tex_coords.min =
                  TexCoords(rows, all_glyphs, lossy_info_for(uploads[i].glyph)).min

\* C11 witness: Reordering was returned and a glyph that was cached before the
\* call and is not in the batch is gone.
C11_Witness ==
    /\ pc = "idle" /\ result = "Reordering"
    /\ DOMAIN pre.all_glyphs \ BatchKeys(glyphs) # {}
    /\ DOMAIN all_glyphs = BatchKeys(glyphs)

\* ------------------------------------------- cache_glyphs on a cleared cache
\* The loop of lines 583-714 run to its end on a cache that was empty when
\* cache_glyphs was entered: from_empty is true and every row was made by this
\* run and is in in_use_rows, so the loop of line 628 evicts nothing and
\* line 660 returns.  Free space is one band below the rows made so far.
RECURSIVE per_glyph_from_empty(_, _, _, _, _)
per_glyph_from_empty(queue, rws, efs, sfe, ag) ==
    IF queue = <<>> THEN "Adding"
    ELSE LET g == Head(queue)
             aligned == aligned_size(g, pad_glyphs, align_4x4)
             row_top == find_row(rws, aligned)
             gaps == fitting_gaps(efs, aligned[2])
             gap == CHOOSE x \in gaps : TRUE
             l == fill_space(efs, sfe, gap, aligned[2])
         IN IF is_cached(ag, lossy_info_for(g))
            THEN per_glyph_from_empty(Tail(queue), rws, efs, sfe, ag)
            ELSE IF too_large(aligned) THEN "GlyphTooLarge"
            ELSE IF row_top # -1
            THEN LET p == place_glyph(rws, ag, row_top, g)
                 IN per_glyph_from_empty(Tail(queue), p.rows, efs, sfe, p.all_glyphs)
            ELSE IF gaps # {}
            THEN LET p == place_glyph(rows_insert(rws, gap[1], new_row(gap[1], aligned[2])),
                                      ag, gap[1], g)
                 IN per_glyph_from_empty(Tail(queue), p.rows, l.space_end_for_start,
                                         l.space_start_for_end, p.all_glyphs)
            ELSE "NoRoomForWholeQueue"

\* what cache_glyphs returns for the batch on a cleared cache, for each order
\* the sort of line 578 may leave glyphs of equal height in
from_empty_results(batch) ==
    {per_glyph_from_empty(order, <<>>, cleared_ledger(height).space_end_for_start,
                          cleared_ledger(height).space_start_for_end, EmptyMap) :
        order \in tallest_first(uncached_part(batch, EmptyMap))}

\* C12: a batch that cache_glyphs caches on a cleared cache is cached (Adding
\* or Reordering) from every reachable cache of the same configuration, and
\* NoRoomForWholeQueue is returned only for a batch for which cache_glyphs on a
\* cleared cache returns NoRoomForWholeQueue.
C12_FitsEmptyFitsAlways ==
    Returned =>
        /\ from_empty_results(glyphs) = {"Adding"} => result \in {"Adding", "Reordering"}
        /\ result = "NoRoomForWholeQueue" =>
              "NoRoomForWholeQueue" \in from_empty_results(glyphs)

\* C12 witness: a batch of two glyphs that fits a cleared cache did not fit the
\* cache it was given to, which held other glyphs, and was cached by clearing.
C12_Witness ==
    /\ Returned
    /\ from_empty_results(glyphs) = {"Adding"}
    /\ Cardinality(BatchKeys(glyphs)) = 2
    /\ pre.all_glyphs # EmptyMap
    /\ result = "Reordering"

\* ------------------------------------------------------------- termination
\* cache_glyphs is an ordinary function call on one thread: once entered, its
\* next step is taken.
CallStep == PerGlyph \/ Evict \/ Upload \/ Retry
SpecLive == Init /\ [][Next]_vars /\ WF_vars(CallStep)

\* C13: every cache_glyphs call returns, and the run made after the clear of a
\* retry never signals a retry itself: a call clears and retries at most once.
C13_OneRetryThenReturns ==
    /\ [](pc = "retry" => ~retrying)
    /\ (pc # "idle") ~> (pc = "idle")

\* C13 witness: a call that found glyphs cached returned NoRoomForWholeQueue,
\* which only the run made after the clear returns to such a call.
C13_Witness ==
    /\ pc = "idle" /\ result = "NoRoomForWholeQueue"
    /\ pre.all_glyphs # EmptyMap

\* the index as the run that returned found it: the retry's run starts on a
\* cleared cache
IndexBeforeFinalRun == IF result = "Reordering" THEN {} ELSE DOMAIN pre.all_glyphs

\* C14: when cache_glyphs returned Ok, the uploader was called exactly once for
\* each key the final run placed and for no key that was resident when that
\* run began; and no uploader call is made while a run is still placing glyphs.
C14_UploadOncePerPlaced ==
    /\ ReturnedOk =>
          /\ UploadedKeys = DOMAIN all_glyphs \ IndexBeforeFinalRun
          /\ Len(uploads) = Cardinality(DOMAIN all_glyphs \ IndexBeforeFinalRun)
          /\ UploadedKeys \cap IndexBeforeFinalRun = {}
    /\ pc # "idle" => uploads = <<>>

\* C14 witness: Adding was returned for a batch of one glyph that was resident
\* and one that was not; only the second was uploaded.
C14_Witness ==
    /\ pc = "idle" /\ result = "Adding"
    /\ Len(uploads) = 1
    /\ \E g \in NonEmpty(glyphs) :
          Resident(pre.all_glyphs, g) /\ lossy_info_for(g) \notin UploadedKeys

\* C15: a cache_glyphs call that returned GlyphTooLarge or NoRoomForWholeQueue
\* made no uploader call, and neither did the attempt that was given up for the
\* retry: nothing is uploaded before the run after the clear uploads.
C15_FailedRunUploadsNothing ==
    /\ (pc = "idle" /\ result \in {"GlyphTooLarge", "NoRoomForWholeQueue"}) => uploads = <<>>
    /\ (pc # "idle" /\ (retrying \/ pc = "retry")) => uploads = <<>>

\* C15 witness: the first attempt was given up with a glyph placed, the run
\* after the clear placed a glyph too and failed; nothing was uploaded.
C15_Witness ==
    /\ pc = "idle" /\ result = "NoRoomForWholeQueue"
    /\ pre.all_glyphs # EmptyMap
    /\ all_glyphs # EmptyMap
    /\ uploads = <<>>

\* the case of C16: the current (or last) call was given one glyph, whose
\* bounding box is wider and taller than the atlas
C16_Case ==
    /\ Cardinality(glyphs) = 1
    /\ \A g \in glyphs :
          /\ pixel_bounding_box(g).some
          /\ pixel_bounding_box(g).width > width
          /\ pixel_bounding_box(g).height > height

\* C16: a cache_glyphs call for a single glyph whose bounding box exceeds the
\* atlas in width and in height never reaches the search for room, returns
\* GlyphTooLarge, and at no point has changed the rows, their order of use, the
\* ledger or the index.
C16_HugeGlyphChangesNothing ==
    C16_Case =>
        /\ pc \in {"idle", "per_glyph"}
        /\ pc = "idle" => result = "GlyphTooLarge"
        /\ rows = pre.rows
        /\ space_end_for_start = pre.space_end_for_start
        /\ space_start_for_end = pre.space_start_for_end
        /\ all_glyphs = pre.all_glyphs

\* C16 witness: the call returned GlyphTooLarge on a cache holding two rows.
C16_Witness ==
    /\ C16_Case
    /\ pc = "idle" /\ result = "GlyphTooLarge"
    /\ Len(rows) >= 2
    /\ rows = pre.rows

\* the requests without a shape
Empties == {g \in Glyphs : ~pixel_bounding_box(g).some}

\* C17: in every state, a request with an empty bounding box has no entry in
\* the index or in a row, is not queued for placement or upload, was not
\* uploaded, and rect_for answers it Ok(None); the rows in use are rows holding
\* a glyph of the batch that has a shape; and a call given only such requests
\* marks no row in use, leaves the cache as it was and returns Adding.
C17_EmptyIgnored ==
    /\ \A e \in Empties :
          /\ rect_for(e) = NoRect
          /\ lossy_info_for(e) \notin DOMAIN all_glyphs
          /\ \A i \in DOMAIN rows : lossy_info_for(e) \notin RowKeys(rows[i])
          /\ e \notin Range(uncached_glyphs)
          /\ \A i \in DOMAIN draw_and_upload : draw_and_upload[i].glyph # e
          /\ \A i \in DOMAIN uploads : uploads[i].glyph # e
    /\ \A top \in in_use_rows :
          /\ top \in RowTops(rows)
          /\ RowKeys(RowAt(rows, top)) \cap BatchKeys(glyphs) # {}
    /\ (glyphs # {} /\ glyphs \subseteq Empties) =>
          /\ in_use_rows = {}
          /\ uploads = <<>>
          /\ rows = pre.rows
          /\ space_end_for_start = pre.space_end_for_start
          /\ space_start_for_end = pre.space_start_for_end
          /\ all_glyphs = pre.all_glyphs
          /\ pc = "idle" => result = "Adding"

\* C17 witness: a batch of a shapeless request and a glyph returned Adding on
\* a cache that held a row; only the glyph was uploaded.
C17_Witness ==
    /\ pc = "idle" /\ result = "Adding"
    /\ glyphs \cap Empties # {}
    /\ pre.rows # <<>>
    /\ Len(uploads) = 1
    /\ \A e \in glyphs \cap Empties : rect_for(e) = NoRect

\* C18: in every state, for every request with a shape, rect_for returns
\* Err(GlyphNotCached) exactly when the request's key is not in all_glyphs, and
\* for a key that is there it returns Ok(Some(..)): every entry of all_glyphs
\* names a row that exists and an index within that row's glyphs.
C18_NotCachedIffAbsent ==
    /\ \A g \in NonEmpty(Glyphs) :
          /\ rect_for(g) = GlyphNotCached <=> lossy_info_for(g) \notin DOMAIN all_glyphs
          /\ lossy_info_for(g) \in DOMAIN all_glyphs => rect_for(g).ok /\ rect_for(g).some
          /\ rect_for(g) # IndexPanic
    /\ \A k \in DOMAIN all_glyphs :
          /\ all_glyphs[k][1] \in RowTops(rows)
          /\ all_glyphs[k][2] + 1 \in DOMAIN RowAt(rows, all_glyphs[k][1]).glyphs

\* C18 witness: after an eviction, rect_for answers GlyphNotCached for a glyph
\* that was cached before the call and gives a rectangle for another.
C18_Witness ==
    /\ pc = "idle"
    /\ evicted # {}
    /\ \E g \in NonEmpty(Glyphs) :
          Resident(pre.all_glyphs, g) /\ rect_for(g) = GlyphNotCached
    /\ \E g \in NonEmpty(Glyphs) : rect_for(g).ok /\ rect_for(g).some

Abs(x) == IF x < 0 THEN -x ELSE x

\* the two requests differ by less than the tolerances, in scale and in
\* sub-pixel offset
WithinTolerance(a, b) ==
    /\ a.id = b.id
    /\ \A i \in 1..2 :
          /\ Abs(a.scale[i] - b.scale[i]) < scale_tolerance
          /\ Abs(normalised_offset_from_position(a.position)[i]
                 - normalised_offset_from_position(b.position)[i]) < position_tolerance

\* the step of width tolerance that x lies in: step k is
\* [(k - 1/2) tolerance, (k + 1/2) tolerance), as 9.95-10.05 for 0.1 and k = 100
StepOf(x, tolerance) ==
    CHOOSE k \in 0..(x \div tolerance + 1) :
        (2 * k - 1) * tolerance <= 2 * x /\ 2 * x < (2 * k + 1) * tolerance

\* the two requests lie in the same step, in scale and in sub-pixel offset
SameStep(a, b) ==
    /\ a.id = b.id
    /\ \A i \in 1..2 :
          /\ StepOf(a.scale[i], scale_tolerance) = StepOf(b.scale[i], scale_tolerance)
          /\ StepOf(normalised_offset_from_position(a.position)[i] + 500, position_tolerance)
             = StepOf(normalised_offset_from_position(b.position)[i] + 500,
                      position_tolerance)

EntriesOf(k) ==
    UNION {{<<i, j>> : j \in {x \in DOMAIN rows[i].glyphs : rows[i].glyphs[x].glyph_info = k}} :
              i \in DOMAIN rows}

\* C20: two different requests for the same glyph whose scales and sub-pixel
\* offsets lie in the same tolerance steps share one cache entry: in every
\* state the rows hold at most one glyph for them, rect_for gives both the same
\* answer, a call uploads for them at most once, and not at all when the call
\* returned Adding and found one of them resident.
C20_SameStepOneEntry ==
    \A a, b \in NonEmpty(Glyphs) :
        (a # b /\ SameStep(a, b)) =>
            /\ lossy_info_for(a) = lossy_info_for(b)
            /\ Cardinality(EntriesOf(lossy_info_for(a)) \cup EntriesOf(lossy_info_for(b))) <= 1
            /\ rect_for(a) = rect_for(b)
            /\ Cardinality({i \in DOMAIN uploads : uploads[i].glyph \in {a, b}}) <= 1
            /\ (pc = "idle" /\ result = "Adding" /\ a \in glyphs
                /\ Resident(pre.all_glyphs, b)) =>
                   \A i \in DOMAIN uploads : uploads[i].glyph \notin {a, b}

\* C20 witness: one batch held two different requests in the same steps; one
\* glyph was uploaded for them and both have its rectangle.
C20_Witness ==
    /\ pc = "idle" /\ result = "Adding"
    /\ \E a, b \in glyphs :
          /\ a # b /\ SameStep(a, b)
          /\ rect_for(a).some /\ rect_for(a) = rect_for(b)
          /\ Len(uploads) = 1
          /\ Cardinality(EntriesOf(lossy_info_for(a))) = 1

\* C21: after clear (and after build and rebuild, which leave result at none)
\* the cache is the initial one: no rows, an empty index, and in each of the
\* two ledger maps exactly the band [0, height); rect_for answers
\* GlyphNotCached for every request with a shape.
C21_ClearResets ==
    (pc = "idle" /\ result = "none") =>
        /\ rows = <<>>
        /\ DOMAIN all_glyphs = {}
        /\ DOMAIN space_end_for_start = {0} /\ space_end_for_start[0] = height
        /\ DOMAIN space_start_for_end = {height} /\ space_start_for_end[height] = 0
        /\ \A g \in NonEmpty(Glyphs) : rect_for(g) = GlyphNotCached

\* C21 witness: clear was called on a cache that held two rows and had a free
\* band that did not start at 0.
C21_Witness ==
    /\ pc = "idle" /\ result = "none"
    /\ Len(pre.rows) >= 2
    /\ 0 \notin DOMAIN pre.space_end_for_start
    /\ DOMAIN pre.space_end_for_start # {}
    /\ rows = <<>>

\* the rectangle lies on the 4x4 texel grid
OnGrid4(r) ==
    /\ r.min[1] % 4 = 0
    /\ r.min[2] % 4 = 0
    /\ (r.max[1] - r.min[1]) % 4 = 0
    /\ (r.max[2] - r.min[2]) % 4 = 0

\* C22: with align_4x4 set, every rectangle queued for the uploader and every
\* rectangle passed to it has min.x, min.y, width and height that are
\* multiples of 4.
C22_UploadsAligned ==
    align_4x4 =>
        /\ \A i \in DOMAIN draw_and_upload : OnGrid4(draw_and_upload[i].tex_coords)
        /\ \A i \in DOMAIN uploads : OnGrid4(uploads[i].tex_coords)

\* C22 witness: with align_4x4 set and after an eviction, a rectangle that does
\* not start at the atlas origin and whose glyph is narrower was uploaded.
C22_Witness ==
    /\ align_4x4
    /\ pc = "idle" /\ result = "Adding"
    /\ evicted # {}
    /\ \E i \in DOMAIN uploads :
          /\ uploads[i].tex_coords.min # <<0, 0>>
          /\ unaligned_size(uploads[i].glyph, pad_glyphs)[1]
                < uploads[i].tex_coords.max[1] - uploads[i].tex_coords.min[1]

\* ================================================================ layout
\* AdvancedLayout (src/src/render_storage/font/helpers.rs).
\*
\* The characters of the texts: "a" is a letter of one byte, "E" a letter of
\* two bytes (as 'é'), "sp" the space and "nl" the newline.
Chars == {"a", "E", "sp", "nl"}
is_whitespace(c) == c \in {"sp", "nl"}
len_utf8(c) == IF c = "E" THEN 2 ELSE 1

\* the font: Font::v_metrics, h_metrics().advance_width and pair_kerning at the
\* scale of the layout
v_metrics == [ascent |-> 8, descent |-> -2, line_gap |-> 1]
advance_width(c) ==
    CASE c = "a" -> 4
      [] c = "E" -> 8
      [] c = "sp" -> 2
      [] OTHER -> 0
pair_kerning(prev_char, c) == IF prev_char = "a" /\ c = "E" THEN -2 ELSE 0

\* line 103
character_height == v_metrics.ascent - v_metrics.descent

\* the arguments of new_str
Aligns == {-1, 0, 1}
MaxWidths == {10, 12}
start == <<2, 0>>

\* Option<usize>::None and Option<char>::None
NoIndex == -1
NoChar == "none"

\* AdvancedLayout::new_str, lines 51-59, and the locals of compute, lines 100-112.
\* original_str holds the characters char_indices has yielded so far.  Kept
\* beside the program's state: wraps counts the words moved to a new line, and
\* in a WordPos realigned counts the calls of realign that shifted it and
\* shift is the sum of their offsets; overflowed records that len() - 1 of
\* line 93 was computed for an empty layout and wrapped around.
new_str(align, max_width) ==
    [original_str |-> <<>>, align |-> align, max_width |-> max_width,
     layout |-> <<>>,
     beginning_line_word_index |-> 0,
     current_word_boundaries |-> <<>>,
     origin |-> start,
     size |-> <<0, character_height>>,
     last_char |-> NoChar,
     done |-> FALSE, panicked |-> FALSE, overflowed |-> FALSE, wraps |-> 0]

\* the byte index char_indices gives the next character
next_index(l) ==
    LET RECURSIVE bytes(_)
        bytes(str) == IF str = <<>> THEN 0 ELSE len_utf8(Head(str)) + bytes(Tail(str))
    IN bytes(l.original_str)

\* WordPos, lines 124-128 and 174-178
WordPos(l) ==
    [word |-> l.current_word_boundaries, origin |-> l.origin, size |-> l.size,
     realigned |-> 0, shift |-> 0]

\* lines 64-77; the indices count from 0 as in the source
line_size(l, beg_line_word_index, last_index) ==
    IF beg_line_word_index + 1 \notin DOMAIN l.layout THEN 0
    ELSE LET first_of_line == l.layout[beg_line_word_index + 1]
             last_of_line == IF last_index # NoIndex THEN l.layout[last_index + 1]
                             ELSE l.layout[Len(l.layout)]
         IN (last_of_line.size[1] + last_of_line.origin[1]) - first_of_line.origin[1]

\* mutant of realign: right alignment shifts by half the free width as well
realign_half(l, first_line_word_index, last_index) ==
    IF l.align < 0 THEN l
    ELSE LET size_of_line == line_size(l, first_line_word_index, last_index)
             offset == (l.max_width - size_of_line) \div 2
             end == IF last_index # NoIndex THEN last_index + 1 ELSE Len(l.layout)
         IN [l EXCEPT
               !.layout = [i \in DOMAIN l.layout |->
                              IF first_line_word_index + 1 <= i /\ i <= end
                              THEN [l.layout[i] EXCEPT !.origin[1] = @ + offset,
                                                       !.realigned = @ + 1,
                                                       !.shift = @ + offset]
                              ELSE l.layout[i]],
               !.overflowed = @ \/ Len(l.layout) = 0]

\* lines 79-97.  len() - 1 of line 93 is computed also when last_index is
\* given; for an empty layout it wraps around to usize::MAX where overflow is
\* not checked, and last_index + 1 wraps to 0.  An index range that does not
\* lie in the layout panics.
realign(l, first_line_word_index, last_index) ==
    IF l.align < 0 THEN l
    ELSE LET size_of_line == line_size(l, first_line_word_index, last_index)
             offset == IF l.align = 0 THEN (l.max_width - size_of_line) \div 2
                       ELSE l.max_width - size_of_line
             underflow == Len(l.layout) = 0
             end == IF last_index # NoIndex THEN last_index + 1
                    ELSE IF underflow THEN 0 ELSE Len(l.layout)
         IN IF first_line_word_index > end \/ end > Len(l.layout)
            THEN [l EXCEPT !.panicked = TRUE]
            ELSE [l EXCEPT
                    !.layout = [i \in DOMAIN l.layout |->
                                   IF first_line_word_index + 1 <= i /\ i <= end
                                   THEN [l.layout[i] EXCEPT !.origin[1] = @ + offset,
                                                            !.realigned = @ + 1,
                                                            !.shift = @ + offset]
                                   ELSE l.layout[i]],
                    !.overflowed = @ \/ underflow]

\* character_height + v_metrics.line_gap
line_height == character_height + v_metrics.line_gap

\* lines 119-121
kerning(l, c) == IF l.last_char = NoChar THEN 0 ELSE pair_kerning(l.last_char, c)

\* mutant of newline: y is not advanced
newline_same_y(l) ==
    LET l1 == [l EXCEPT !.origin = <<start[1], l.origin[2]>>]
        l2 == realign(l1, l1.beginning_line_word_index, NoIndex)
    IN [l2 EXCEPT !.beginning_line_word_index = Len(l2.layout)]

\* lines 142-145 and 154-157: a newline
newline(l) ==
    LET l1 == [l EXCEPT !.origin = <<start[1], l.origin[2] + line_height>>]
        l2 == realign(l1, l1.beginning_line_word_index, NoIndex)
    IN [l2 EXCEPT !.beginning_line_word_index = Len(l2.layout)]

\* lines 131-138: the word just pushed goes to a new line
wrap(l) ==
    LET moved == <<start[1], l.origin[2] + line_height>>
        l1 == [l EXCEPT !.layout[Len(l.layout)].origin = moved,
                        !.origin = <<moved[1] + l.size[1], moved[2]>>,
                        !.wraps = @ + 1]
        l2 == realign(l1, l1.beginning_line_word_index, Len(l1.layout) - 2)
    IN [l2 EXCEPT !.beginning_line_word_index = Len(l2.layout) - 1,
                  !.size = <<0, l2.size[2]>>]

\* mutant of too_wide: every line is too wide
too_wide_always(l) == TRUE

\* lines 130 and 181: the line, with the word just pushed, is too wide
too_wide(l) == line_size(l, l.beginning_line_word_index, NoIndex) >= l.max_width

\* mutant of words_before: the first word of a line may be moved as well
words_before_any(words_in_line) == TRUE

\* line 130: the line held a word before the one just pushed
words_before(words_in_line) == words_in_line > 0

\* lines 123-150: a whitespace character after a word
close_word(l, c) ==
    LET words_in_line == Len(l.layout) - l.beginning_line_word_index
        l1 == [l EXCEPT !.layout = Append(l.layout, WordPos(l)),
                        !.current_word_boundaries = <<>>]
        l2 == IF too_wide(l1) /\ words_before(words_in_line) THEN wrap(l1) ELSE l1
        l3 == IF c = "nl" THEN newline(l2)
              ELSE [l2 EXCEPT !.origin[1] = @ + l2.size[1] + advance_width(c) + kerning(l, c)]
    IN [l3 EXCEPT !.size = <<0, l3.size[2]>>]

\* lines 151-161: a whitespace character outside a word
skip_whitespace(l, c) ==
    IF c = "nl" THEN newline(l)
    ELSE [l EXCEPT !.origin[1] = @ + advance_width(c) + kerning(l, c)]

\* mutant of extend_word: the end of the word is not moved
extend_word_fixed_end(l, c) ==
    [l EXCEPT !.size[1] = @ + advance_width(c) + kerning(l, c)]

\* lines 162-165: a character of the open word
extend_word(l, c) ==
    [l EXCEPT !.current_word_boundaries = <<@[1], @[2] + len_utf8(c)>>,
              !.size[1] = @ + advance_width(c) + kerning(l, c)]

\* lines 166-169: the first character of a word
open_word(l, c) ==
    [l EXCEPT !.current_word_boundaries = <<next_index(l), next_index(l) + len_utf8(c)>>,
              !.size[1] = @ + advance_width(c) + kerning(l, c)]

\* mutant of finish: the last line is left as it is
finish_unaligned(l) ==
    IF l.current_word_boundaries # <<>>
    THEN [l EXCEPT !.layout = Append(l.layout, WordPos(l))]
    ELSE l

\* lines 173-193: the end of the text
finish(l) ==
    LET l1 == IF l.current_word_boundaries # <<>>
              THEN [l EXCEPT !.layout = Append(l.layout, WordPos(l))]
              ELSE l
        words_in_line == Len(l1.layout) - l1.beginning_line_word_index
        moved == <<start[1], l1.origin[2] + line_height>>
        l2 == [l1 EXCEPT !.layout[Len(l1.layout)].origin = moved,
                         !.origin = moved,
                         !.wraps = @ + 1]
        l3 == realign(l2, l2.beginning_line_word_index, Len(l2.layout) - 2)
    IN IF too_wide(l1) /\ words_in_line >= 2
       THEN realign(l3, Len(l3.layout) - 1, NoIndex)
       ELSE realign(l1, l1.beginning_line_word_index, NoIndex)

\* the layout of a text is computed next to a cache that no call touches
cache_side == <<cache_vars, call_vars, result, uploads, pre, evicted, dropped,
                same_as_prev, observe_dropped, probe>>

\* What one step of compute leaves behind.  Line 93 underflows on an empty
\* layout: a build that checks overflow panics there, a build that does not
\* goes on with the wrapped index.
Outcomes(l, after) ==
    IF after.panicked THEN {[l EXCEPT !.panicked = TRUE]}
    ELSE IF after.overflowed /\ ~l.overflowed
         THEN {after, [l EXCEPT !.panicked = TRUE, !.overflowed = TRUE]}
         ELSE {after}

\* lines 114 and 171: the next character of the text is read
consumed(l, c) == [l EXCEPT !.original_str = Append(@, c), !.last_char = c]

Running ==
    /\ ~advanced_layout.done
    /\ ~advanced_layout.panicked

HasNext == Len(advanced_layout.original_str) < MaxTextLen

\* AdvancedLayout::new_str (lines 50-62) on an empty cache
InitLayout ==
    /\ Built
    /\ observe_dropped = FALSE
    /\ probe = NoProbe
    /\ advanced_layout \in {new_str(a, w) : a \in Aligns, w \in MaxWidths}

\* match arm (Some, true), lines 123-150
CloseWord ==
    /\ Running /\ HasNext
    /\ advanced_layout.current_word_boundaries # <<>>
    /\ \E c \in {x \in Chars : is_whitespace(x)} :
          advanced_layout' \in
              Outcomes(advanced_layout, consumed(close_word(advanced_layout, c), c))
    /\ UNCHANGED cache_side

\* match arm (None, true), lines 151-161
SkipWhitespace ==
    /\ Running /\ HasNext
    /\ advanced_layout.current_word_boundaries = <<>>
    /\ \E c \in {x \in Chars : is_whitespace(x)} :
          advanced_layout' \in
              Outcomes(advanced_layout, consumed(skip_whitespace(advanced_layout, c), c))
    /\ UNCHANGED cache_side

\* match arm (Some, false), lines 162-165
ExtendWord ==
    /\ Running /\ HasNext
    /\ advanced_layout.current_word_boundaries # <<>>
    /\ \E c \in {x \in Chars : ~is_whitespace(x)} :
          advanced_layout' \in
              Outcomes(advanced_layout, consumed(extend_word(advanced_layout, c), c))
    /\ UNCHANGED cache_side

\* match arm (None, false), lines 166-169
OpenWord ==
    /\ Running /\ HasNext
    /\ advanced_layout.current_word_boundaries = <<>>
    /\ \E c \in {x \in Chars : ~is_whitespace(x)} :
          advanced_layout' \in
              Outcomes(advanced_layout, consumed(open_word(advanced_layout, c), c))
    /\ UNCHANGED cache_side

\* the text ends, lines 173-193
Finish ==
    /\ Running
    /\ \E after \in Outcomes(advanced_layout, finish(advanced_layout)) :
          advanced_layout' = [after EXCEPT !.done = ~after.panicked]
    /\ UNCHANGED cache_side

NextLayout == CloseWord \/ SkipWhitespace \/ ExtendWord \/ OpenWord \/ Finish

SpecLayout == InitLayout /\ [][NextLayout]_vars

\* -------------------------------------------------- the words of a layout
\* byte offset of the i-th character of str
RECURSIVE byte_index(_, _)
byte_index(str, i) == IF i <= 1 THEN 0 ELSE byte_index(str, i - 1) + len_utf8(str[i - 1])

\* &self.original_str[beg..end] (lines 125 and 175): the characters of the
\* text that start at a byte offset of the range
text_of(str, word) ==
    SelectSeq([i \in DOMAIN str |-> <<byte_index(str, i), str[i]>>],
              LAMBDA p : word[1] <= p[1] /\ p[1] < word[2])

\* the maximal runs of non-whitespace characters of str, as byte ranges, in
\* text order; open is the start of the run the i-th character continues
RECURSIVE maximal_runs(_, _, _)
maximal_runs(str, i, open) ==
    LET closed == IF open = <<>> THEN <<>> ELSE <<<<open[1], byte_index(str, i)>>>> IN
    IF i > Len(str) THEN closed
    ELSE IF is_whitespace(str[i]) THEN closed \o maximal_runs(str, i + 1, <<>>)
    ELSE maximal_runs(str, i + 1, IF open = <<>> THEN <<byte_index(str, i)>> ELSE open)

Completed == advanced_layout # NoLayout /\ advanced_layout.done

\* C23: a layout that completes holds one WordPos per maximal run of
\* non-whitespace characters of the text, in text order, with that run as its
\* text; no WordPos is empty or holds whitespace, and whitespace at the end of
\* the text adds no WordPos.
C23_OneWordPerRun ==
    Completed =>
        LET l == advanced_layout IN
        /\ [i \in DOMAIN l.layout |-> l.layout[i].word] = maximal_runs(l.original_str, 1, <<>>)
        /\ \A i \in DOMAIN l.layout :
              LET text == text_of(l.original_str, l.layout[i].word) IN
              /\ text # <<>>
              /\ \A k \in DOMAIN text : ~is_whitespace(text[k][2])
              /\ text[1][1] = l.layout[i].word[1]
              /\ text[Len(text)][1] + len_utf8(text[Len(text)][2]) = l.layout[i].word[2]

\* two words, the second a character of two bytes, and whitespace at both
\* ends of the text
C23_Witness ==
    /\ Completed
    /\ Len(advanced_layout.layout) = 2
    /\ advanced_layout.layout[2].word = <<3, 5>>
    /\ is_whitespace(advanced_layout.original_str[1])
    /\ is_whitespace(advanced_layout.last_char)

\* ------------------------------------------------------- lines of a layout
\* the characters of the text between the word before the i-th and the i-th
between(l, i) ==
    text_of(l.original_str,
            <<IF i = 1 THEN 0 ELSE l.layout[i - 1].word[2], l.layout[i].word[1]>>)

newlines(t) == Cardinality({k \in DOMAIN t : t[k][2] = "nl"})

\* the advance of the characters of t (no pair with whitespace has a kerning)
RECURSIVE advance_of(_)
advance_of(t) == IF t = <<>> THEN 0 ELSE advance_width(Head(t)[2]) + advance_of(Tail(t))

\* where compute put the word, before any realign
raw_x(w) == w.origin[1] - w.shift

\* the first word of the line the i-th word is on
first_of_line(l, i) ==
    CHOOSE j \in 1..i :
        /\ \A k \in j..i : l.layout[k].origin[2] = l.layout[i].origin[2]
        /\ j > 1 => l.layout[j - 1].origin[2] # l.layout[i].origin[2]

\* the width of the line of the word before the i-th, were the i-th added to it
width_with(l, i) ==
    LET prev == l.layout[i - 1] IN
    (raw_x(prev) + prev.size[1] + advance_of(between(l, i)) + l.layout[i].size[1])
        - raw_x(l.layout[first_of_line(l, i - 1)])

\* the i-th word follows another word on the same line of the text
joins(l, i) == i > 1 /\ newlines(between(l, i)) = 0

\* the y of the i-th word if it stays on the line the text puts it on
unmoved_y(l, i) ==
    (IF i = 1 THEN start[2] ELSE l.layout[i - 1].origin[2])
        + line_height * newlines(between(l, i))

\* C24: in a layout that completes a word has been moved to a new line
\* exactly when it is not the first word of its line and the width of the
\* line with that word exceeds max_width; a moved word is one line height
\* lower, at the start of the line.
C24_MovedIffExceeds ==
    Completed =>
        LET l == advanced_layout IN
        \A i \in DOMAIN l.layout :
            LET moved == l.layout[i].origin[2] = unmoved_y(l, i) + line_height IN
            /\ l.layout[i].origin[2] \in {unmoved_y(l, i), unmoved_y(l, i) + line_height}
            /\ moved <=> (joins(l, i) /\ width_with(l, i) > l.max_width)
            /\ moved => raw_x(l.layout[i]) = start[1]

\* the characters of t after its last newline
RECURSIVE after_newline(_)
after_newline(t) ==
    IF t = <<>> \/ t[Len(t)][2] = "nl" THEN <<>>
    ELSE Append(after_newline(SubSeq(t, 1, Len(t) - 1)), t[Len(t)])

\* C25: in a layout that completes no word is split over WordPos entries,
\* and a word that is the first of its line, wider than max_width or not,
\* stays on that line where the cursor was: it is not moved.
C25_FirstWordStays ==
    Completed =>
        LET l == advanced_layout IN
        /\ Len(l.layout) = Len(maximal_runs(l.original_str, 1, <<>>))
        /\ \A i \in DOMAIN l.layout :
              ~joins(l, i) =>
                  /\ l.layout[i].origin[2] = unmoved_y(l, i)
                  /\ raw_x(l.layout[i])
                        = start[1] + advance_of(after_newline(between(l, i)))

\* a first word wider than max_width, closed by whitespace, with a word
\* after it that was moved
C25_Witness ==
    /\ Completed
    /\ Len(advanced_layout.layout) = 2
    /\ advanced_layout.layout[1].size[1] > advanced_layout.max_width
    /\ advanced_layout.layout[1].origin[2] = start[2]
    /\ advanced_layout.layout[2].origin[2] = start[2] + line_height

\* C26: while a layout is computed the cursor is one line height
\* (ascent - descent + line_gap) lower for every newline read and for every
\* word moved to a new line; after a newline no word is open, the cursor is
\* at the line start and the next line begins; the layout holds the closed
\* words only, so the empty lines between newlines add no WordPos.
C26_NewlineAdvances ==
    (advanced_layout # NoLayout /\ ~advanced_layout.panicked) =>
        LET l == advanced_layout
            open == ~l.done /\ l.current_word_boundaries # <<>>
            read == [i \in DOMAIN l.original_str |-> <<i, l.original_str[i]>>]
        IN
        /\ line_height = (v_metrics.ascent - v_metrics.descent) + v_metrics.line_gap
        /\ l.origin[2] = start[2] + line_height * (newlines(read) + l.wraps)
        /\ (~l.done /\ l.last_char = "nl") =>
              /\ l.current_word_boundaries = <<>>
              /\ l.origin[1] = start[1]
              /\ l.beginning_line_word_index = Len(l.layout)
        /\ Len(l.layout) + (IF open THEN 1 ELSE 0)
              = Len(maximal_runs(l.original_str, 1, <<>>))

\* a word, two newlines and a word: the second word is two line heights lower
C26_Witness ==
    /\ Completed
    /\ advanced_layout.wraps = 0
    /\ Len(advanced_layout.layout) = 2
    /\ advanced_layout.layout[2].origin[2]
          = advanced_layout.layout[1].origin[2] + 2 * line_height

\* the last word of the line the i-th word is on
last_of_line(l, i) ==
    CHOOSE k \in i..Len(l.layout) :
        /\ \A j \in i..k : l.layout[j].origin[2] = l.layout[i].origin[2]
        /\ k < Len(l.layout) => l.layout[k + 1].origin[2] # l.layout[i].origin[2]

\* last.origin.x + last.size.x - first.origin.x of the line of the i-th
\* word, taken before the line is shifted
line_width(l, i) ==
    LET first == l.layout[first_of_line(l, i)]
        last == l.layout[last_of_line(l, i)]
    IN (raw_x(last) + last.size[1]) - raw_x(first)

\* every realigned word is shifted by the offset of its line
ShiftOfLine ==
    (advanced_layout # NoLayout /\ ~advanced_layout.panicked) =>
        LET l == advanced_layout IN
        \A i \in DOMAIN l.layout :
            LET w == l.layout[i] IN
            /\ w.realigned = 0 => w.shift = 0
            /\ l.align < 0 => w.realigned = 0
            /\ (w.realigned > 0 /\ l.align = 0) => 2 * w.shift = l.max_width - line_width(l, i)
            /\ (w.realigned > 0 /\ l.align > 0) => w.shift = l.max_width - line_width(l, i)
            /\ w.shift = l.layout[first_of_line(l, i)].shift

\* a step that realigns changes origin.x only
KeepsWords ==
    (advanced_layout # NoLayout /\ advanced_layout' # NoLayout) =>
        \A i \in DOMAIN advanced_layout.layout :
            LET w == advanced_layout.layout[i]
                after == advanced_layout'.layout[i]
            IN /\ after.origin[2] = w.origin[2]
               /\ after.size = w.size
               /\ after.word = w.word
               /\ after.origin[1] = w.origin[1] + (after.shift - w.shift)

\* C27: realign shifts origin.x of every word of the line by one amount, 0
\* for left alignment, (max_width - line_width) / 2 for center and
\* max_width - line_width for right alignment, line_width being
\* last.origin.x + last.size.x - first.origin.x of that line; origin.y, size
\* and text of the words stay as they were.
C27_RealignShiftsLine == [](ShiftOfLine) /\ [][KeepsWords]_vars

\* centered, max_width 12: a line of two words shifted by 1 and a line of
\* one word shifted by 4
C27_Witness ==
    /\ Completed
    /\ advanced_layout.align = 0
    /\ Len(advanced_layout.layout) = 3
    /\ advanced_layout.layout[1].shift = 1
    /\ advanced_layout.layout[2].shift = 1
    /\ advanced_layout.layout[3].shift = 4

\* the advance of the characters of str with the kerning of its pairs
RECURSIVE text_width(_)
text_width(str) ==
    IF str = <<>> THEN 0
    ELSE text_width(SubSeq(str, 1, Len(str) - 1)) + advance_width(str[Len(str)])
            + (IF Len(str) > 1 THEN pair_kerning(str[Len(str) - 1], str[Len(str)]) ELSE 0)

\* str is two words with one space between them and no other whitespace
TwoWords(str) ==
    \E k \in 2..(Len(str) - 1) :
        /\ str[k] = "sp"
        /\ \A i \in DOMAIN str \ {k} : ~is_whitespace(str[i])

\* C28: in a layout that completes, words with one origin.y have strictly
\* increasing origin.x and none reaches into the next; a left-aligned text of
\* two words with one space between them, narrower than max_width, gives two
\* WordPos with one origin.y, the second to the right of the first.
C28_WordsLeftToRight ==
    Completed =>
        LET l == advanced_layout IN
        /\ \A i \in DOMAIN l.layout : \A j \in DOMAIN l.layout :
              (i < j /\ l.layout[i].origin[2] = l.layout[j].origin[2]) =>
                  /\ l.layout[i].origin[1] < l.layout[j].origin[1]
                  /\ l.layout[i].origin[1] + l.layout[i].size[1] <= l.layout[j].origin[1]
        /\ (l.align < 0 /\ TwoWords(l.original_str) /\ text_width(l.original_str) < l.max_width) =>
              /\ Len(l.layout) = 2
              /\ l.layout[1].origin[2] = l.layout[2].origin[2]
              /\ l.layout[1].origin[1] < l.layout[2].origin[1]

\* "a a" left-aligned in max_width 12
C28_Witness ==
    /\ Completed
    /\ advanced_layout.align < 0
    /\ TwoWords(advanced_layout.original_str)
    /\ text_width(advanced_layout.original_str) < advanced_layout.max_width
    /\ Len(advanced_layout.layout) = 2
    /\ advanced_layout.layout[2].origin[1] > advanced_layout.layout[1].origin[1] + advanced_layout.layout[1].size[1]

\* ------------------------------------------------------ the index and rows
\* the entry of key k points to a slot of a row that holds k
PointsAtOwnSlot(k) ==
    LET at == all_glyphs[k] IN
    /\ at[1] \in RowTops(rows)
    /\ at[2] + 1 \in DOMAIN RowAt(rows, at[1]).glyphs
    /\ RowAt(rows, at[1]).glyphs[at[2] + 1].glyph_info = k

IndexAgreesWithRows ==
    /\ \A k \in DOMAIN all_glyphs : PointsAtOwnSlot(k)
    /\ \A i \in DOMAIN rows : \A j \in DOMAIN rows[i].glyphs :
          Cardinality({k \in DOMAIN all_glyphs : all_glyphs[k] = <<rows[i].top, j - 1>>}) = 1

\* a step that removes the least recently used row leaves none of its keys
\* in the index
EvictionUnindexes ==
    (pc = "evict" /\ evicted' # evicted) =>
        \A k \in RowKeys(Head(rows)) : k \notin DOMAIN all_glyphs'

\* C29: in every state every entry of all_glyphs points to a row that exists
\* and to a slot of it that holds the entry's key, every glyph held by a row
\* has exactly one entry pointing at it, and the step that evicts a row takes
\* every entry that pointed into it out of all_glyphs.
C29_IndexAgreesWithRows == [](IndexAgreesWithRows) /\ [][EvictionUnindexes]_vars

\* after a call that evicted a row with glyphs: a row holds two glyphs, both
\* in the index, and no key of the evicted row is
C29_Witness ==
    /\ pc = "idle"
    /\ result = "Adding"
    /\ \E r \in evicted : RowKeys(r) # {} /\ RowKeys(r) \cap DOMAIN all_glyphs = {}
    /\ \E i \in DOMAIN rows : Len(rows[i].glyphs) >= 2
    /\ Cardinality(DOMAIN all_glyphs) >= 2

\* ---------------------------------------------------------- the free bands
BandsByStart == {<<s, space_end_for_start[s]>> : s \in DOMAIN space_end_for_start}
BandsByEnd == {<<space_start_for_end[e], e>> : e \in DOMAIN space_start_for_end}

\* C30: in every state no free band ends where another one starts, so the
\* span of an evicted row is one band with the free bands on both of its
\* sides, and space_end_for_start and space_start_for_end hold the same bands.
C30_BandsMerged ==
    /\ \A b \in BandsByStart : b[2] \notin DOMAIN space_end_for_start
    /\ \A b \in BandsByEnd : b[1] \notin DOMAIN space_start_for_end
    /\ BandsByStart = BandsByEnd

\* a call evicted a row and then the row below it, which had the band freed
\* by the first on one side and a band free since before the call on the other
C30_Witness ==
    \E i \in DOMAIN pre.rows : \E j \in DOMAIN pre.rows :
        /\ i < j
        /\ pre.rows[i] \in evicted
        /\ pre.rows[j] \in evicted
        /\ pre.rows[i].top + pre.rows[i].height = pre.rows[j].top
        /\ pre.rows[j].top + pre.rows[j].height \in DOMAIN pre.space_end_for_start

\* ------------------------------------------------------ the rows' measures
\* the size a stored glyph was allotted: its unaligned size (line 707),
\* rounded as lines 598-603 round it
AlignedOf(info) ==
    LET w == info.tex_coords.max[1] - info.tex_coords.min[1]
        h == info.tex_coords.max[2] - info.tex_coords.min[2]
    IN IF align_4x4 THEN <<align4(w), align4(h)>> ELSE <<w, h>>

RECURSIVE AlignedWidths(_)
AlignedWidths(infos) ==
    IF infos = <<>> THEN 0 ELSE AlignedOf(Head(infos))[1] + AlignedWidths(Tail(infos))

RowMeasures ==
    \A i \in DOMAIN rows :
        /\ rows[i].width = AlignedWidths(rows[i].glyphs)
        /\ rows[i].width <= width
        /\ \A j \in DOMAIN rows[i].glyphs : AlignedOf(rows[i].glyphs[j])[2] <= rows[i].height

\* the step removes the least recently used row (lines 630-632)
Evicting == pc = "evict" /\ rows # <<>> /\ may_evict(Head(rows).top, in_use_rows)

\* a row that a step leaves in rows keeps its height
HeightKept ==
    \A i \in DOMAIN rows : \A j \in DOMAIN rows' :
        (rows'[j].top = rows[i].top /\ ~(Evicting /\ i = 1)) =>
            rows'[j].height = rows[i].height

\* C31: in every state the used width of every row is the sum of the aligned
\* widths of its glyphs and at most the atlas width, every glyph of the row
\* has an aligned height of at most the row's height, and no step changes the
\* height of a row it keeps.
C31_RowMeasures == [](RowMeasures) /\ [][HeightKept]_vars

\* with 4x4 alignment, a row of two glyphs of unaligned widths 7 and 3 filled
\* to the atlas width
C31_Witness ==
    /\ align_4x4
    /\ \E i \in DOMAIN rows :
          /\ Len(rows[i].glyphs) = 2
          /\ rows[i].width = width
          /\ rows[i].glyphs[2].tex_coords.max[1] < width

\* ---------------------------------------------------------------- eviction
MaxOf(S) == CHOOSE x \in S : \A y \in S : y <= x
MinOf(S) == CHOOSE x \in S : \A y \in S : x <= y

\* the free band around the span of a removed row: what no row of rws covers
BandAround(rws, top, row_height) ==
    <<MaxOf({0} \cup {rws[i].top + rws[i].height : i \in {j \in DOMAIN rws : rws[j].top < top}}),
      MinOf({height} \cup {rws[i].top : i \in {j \in DOMAIN rws : rws[j].top > top}})>>

\* the place of the row in the order the rows had when the call began
AgeBefore(row) == CHOOSE i \in DOMAIN pre.rows : pre.rows[i] = row

\* a step of the eviction loop that removes a row
EvictsOldestFree ==
    Evicting =>
        LET front == Head(rows)
            g == Head(uncached_glyphs)
            aligned == aligned_size(g, pad_glyphs, align_4x4)
            band == BandAround(Tail(rows), front.top, front.height)
        IN \* neither a row nor a free band fits the glyph
           /\ ~retrying
           /\ \A i \in DOMAIN rows :
                 ~(rows[i].height >= aligned[2] /\ width - rows[i].width >= aligned[1])
           /\ \A st \in DOMAIN space_end_for_start : space_end_for_start[st] - st < aligned[2]
           \* the row is not in use, and no older row that is not in use is left
           /\ front.top \notin in_use_rows
           /\ front \in Range(pre.rows)
           /\ \A i \in DOMAIN rows :
                 (i > 1 /\ rows[i].top \notin in_use_rows) =>
                     /\ rows[i] \in Range(pre.rows)
                     /\ AgeBefore(front) < AgeBefore(rows[i])
           \* the loop ends exactly when the band around the row is tall enough
           /\ IF band[2] - band[1] >= aligned[2]
              THEN /\ pc' = "per_glyph"
                   /\ uncached_glyphs' = Tail(uncached_glyphs)
                   /\ Range(rows') \ {rows'[Len(rows')]} = Range(Tail(rows))
                   /\ lossy_info_for(g) \in RowKeys(rows'[Len(rows')])
              ELSE /\ pc' = "evict"
                   /\ rows' = Tail(rows)

\* a step of the eviction loop that gives up
GivesUpWhenAllInUse ==
    (pc = "evict" /\ (pc' = "retry" \/ (pc' = "idle" /\ result' = "NoRoomForWholeQueue"))) =>
        /\ rows # <<>>
        /\ \A i \in DOMAIN rows : rows[i].top \in in_use_rows

\* C32: a row is evicted only when neither a row nor a free band fits the
\* glyph, it is the least recently used row and not in use by the batch, and
\* the loop ends with the step that forms a band tall enough for the glyph;
\* the loop gives up (retry or NoRoomForWholeQueue) only when every row left
\* is in use by the batch.
C32_EvictionOrder == [][EvictsOldestFree /\ GivesUpWhenAllInUse]_vars

\* a call that evicted two rows, the older first, and placed its glyphs
C32_Witness ==
    /\ pc = "idle"
    /\ result = "Adding"
    /\ Cardinality(evicted) >= 2
    /\ \A r \in evicted : r \in Range(pre.rows)
    /\ glyphs # {}
    /\ \A g \in NonEmpty(glyphs) : Resident(all_glyphs, g)

\* --------------------------------------------------------------- placement
\* the rows of rws with the height and the width left for a glyph of the size
FittingRows(rws, aligned) ==
    {i \in DOMAIN rws : rws[i].height >= aligned[2] /\ width - rws[i].width >= aligned[1]}

\* a step that puts the glyph at the head of the queue in a row
PlacesMostRecentFit ==
    (/\ pc \in {"per_glyph", "evict"}
     /\ uncached_glyphs # <<>>
     /\ lossy_info_for(Head(uncached_glyphs)) \notin DOMAIN all_glyphs
     /\ lossy_info_for(Head(uncached_glyphs)) \in DOMAIN all_glyphs') =>
        LET g == Head(uncached_glyphs)
            aligned == aligned_size(g, pad_glyphs, align_4x4)
            fits == FittingRows(rows, aligned)
            at == all_glyphs'[lossy_info_for(g)]
        IN /\ rows'[Len(rows')].top = at[1]
           /\ IF pc = "per_glyph" /\ fits # {}
              THEN /\ at[1] = rows[MaxOf(fits)].top
                   /\ RowTops(rows') = RowTops(rows)
                   /\ at[2] = Len(rows[MaxOf(fits)].glyphs)
              ELSE /\ fits = {}
                   /\ at[2] = 0
                   /\ Len(rows'[Len(rows')].glyphs) = 1
                   /\ rows'[Len(rows')].height = aligned[2]

\* C33: a glyph that is placed goes to the most recently used row that has
\* the height and the width left for its aligned size, and to a new row only
\* when no row has; the row it goes to becomes the most recently used.
C33_MostRecentFit == [][PlacesMostRecentFit]_vars

\* a call placed one glyph in the more recently used of two rows that both
\* had room for it
C33_Witness ==
    /\ pc = "idle"
    /\ result = "Adding"
    /\ Cardinality(glyphs) = 1
    /\ Len(uploads) = 1
    /\ Len(pre.rows) = 2
    /\ Len(rows) = 2
    /\ Len(rows[2].glyphs) = Len(pre.rows[2].glyphs) + 1
    /\ rows[2].top = pre.rows[2].top
    /\ LET aligned == AlignedOf(rows[2].glyphs[Len(rows[2].glyphs)])
       IN FittingRows(pre.rows, aligned) = {1, 2}

\* ------------------------------------------------------------ GlyphTooLarge
\* the glyph's size after padding and rounding reaches the atlas in a dimension
ReachesAtlas(g) ==
    LET aligned == aligned_size(g, pad_glyphs, align_4x4)
    IN aligned[1] >= width \/ aligned[2] >= height

PackedFromEmpty ==
    \/ pc \in {"per_glyph", "evict"} /\ from_empty
    \/ Returned /\ (DOMAIN pre.all_glyphs = {} \/ result = "Reordering")

RECURSIVE HeightsOf(_)
HeightsOf(rws) == IF rws = <<>> THEN 0 ELSE Head(rws).height + HeightsOf(Tail(rws))

HeightsAbove(top) ==
    LET Above(r) == r.top < top IN HeightsOf(SelectSeq(rows, Above))

\* C35: while and after a batch is packed into an empty cache the glyph taken
\* from the queue is as tall as any glyph left in it, the rows lie one under
\* the other from 0 downwards without a free band between them, a row that
\* lies lower is no taller than one above it, the heights of the rows sum to
\* at most the atlas height, and what is left is one free band under them.
C35_TallestFirstPacking ==
    PackedFromEmpty =>
        /\ \A i \in DOMAIN uncached_glyphs :
              pixel_bounding_box(Head(uncached_glyphs)).height
                  >= pixel_bounding_box(uncached_glyphs[i]).height
        /\ \A i \in DOMAIN rows : rows[i].top = HeightsAbove(rows[i].top)
        /\ \A i \in DOMAIN rows : \A j \in DOMAIN rows :
              rows[i].top < rows[j].top => rows[i].height >= rows[j].height
        /\ HeightsOf(rows) <= height
        /\ BandsByStart = IF HeightsOf(rows) = height THEN {}
                          ELSE {<<HeightsOf(rows), height>>}

\* two glyphs of heights 6 and 5 packed into an empty cache: a row of height
\* 6 at 0, a row of height 5 at 6 and the free band under them
C35_Witness ==
    /\ Returned
    /\ result = "Adding"
    /\ DOMAIN pre.all_glyphs = {}
    /\ Len(rows) = 2
    /\ \E i \in DOMAIN rows : rows[i].top = 0 /\ rows[i].height > rows[3 - i].height
    /\ Cardinality(BandsByStart) = 1

\* ------------------------------------------------- the lines of the result
\* the i-th word was moved to a new line
WasMoved(l, i) == l.layout[i].origin[2] = unmoved_y(l, i) + line_height

\* C36: in a layout that completes every word has been shifted once, by the
\* offset of the line it ends on (none for left alignment), that line being
\* the words with its origin.y: a word moved to a new line starts that line,
\* and the line it left is measured and shifted without it.
C36_EachLineOnce ==
    Completed =>
        LET l == advanced_layout IN
        \A i \in DOMAIN l.layout :
            LET w == l.layout[i]
                free == l.max_width - line_width(l, i)
                line_start == IF WasMoved(l, i) THEN start[1]
                              ELSE start[1] + advance_of(after_newline(between(l, i)))
            IN /\ w.realigned = IF l.align < 0 THEN 0 ELSE 1
               /\ l.align < 0 => w.shift = 0
               /\ l.align = 0 => 2 * w.shift = free
               /\ l.align > 0 => w.shift = free
               /\ IF first_of_line(l, i) = i
                  THEN w.origin[1] = line_start + w.shift
                  ELSE w.origin[1] = l.layout[i - 1].origin[1] + l.layout[i - 1].size[1]
                                        + advance_of(between(l, i))

\* centered in max_width 12: a word alone on its line, shifted by 2, and the
\* word moved from that line with the word after it, both shifted by 1
C36_Witness ==
    /\ Completed
    /\ advanced_layout.align = 0
    /\ advanced_layout.wraps = 1
    /\ Len(advanced_layout.layout) = 3
    /\ WasMoved(advanced_layout, 2)
    /\ advanced_layout.layout[3].origin[2] = advanced_layout.layout[2].origin[2]
    /\ advanced_layout.layout[1].origin[1] = start[1] + 2
    /\ advanced_layout.layout[2].origin[1] = start[1] + 1

\* -------------------------------------------------- resident and uploaded
\* the uploader was called during the last call for the glyph's key, at the
\* place where the glyph lies now
UploadedInPlace(g) ==
    \E i \in DOMAIN uploads :
        /\ lossy_info_for(uploads[i].glyph) = lossy_info_for(g)
        /\ uploads[i].tex_coords.min = TexCoords(rows, all_glyphs, lossy_info_for(g)).min

\* the glyph lay at the same place before the last call, in a row the call kept
LayThereBefore(g) ==
    /\ Resident(pre.all_glyphs, g)
    /\ pre.all_glyphs[lossy_info_for(g)] = all_glyphs[lossy_info_for(g)]
    /\ \A r \in evicted : lossy_info_for(g) \notin RowKeys(r)
    /\ result # "Reordering"

\* C37: when a cache_glyphs call has returned, with Ok or with an error, every
\* glyph rect_for gives a rectangle for either lay at that place before the
\* call or was passed to the uploader by the call for that place: step by
\* step, no rectangle is reported that was allocated and never uploaded.
C37_ResidentWasUploaded ==
    Returned =>
        \A g \in Glyphs :
            rect_for(g).some => (LayThereBefore(g) \/ UploadedInPlace(g))

\* ------------------------------------------------- where uploads are drawn
Intersect(a, b) ==
    /\ a.min[1] < b.max[1] /\ b.min[1] < a.max[1]
    /\ a.min[2] < b.max[2] /\ b.min[2] < a.max[2]

\* the rectangle allotted to a stored glyph: its place with its aligned size
AllocatedRect(info) ==
    Rect(info.tex_coords.min[1], info.tex_coords.min[2],
         info.tex_coords.min[1] + AlignedOf(info)[1],
         info.tex_coords.min[2] + AlignedOf(info)[2])

StoredGlyphs == UNION {Range(rows[i].glyphs) : i \in DOMAIN rows}

\* C38: every rectangle passed to the uploader lies inside the atlas and
\* meets the rectangle allotted to no other glyph that is resident when the
\* call has returned.
C38_UploadsInsideAndApart ==
    \A i \in DOMAIN uploads :
        /\ uploads[i].tex_coords.min[1] >= 0
        /\ uploads[i].tex_coords.min[2] >= 0
        /\ uploads[i].tex_coords.max[1] <= width
        /\ uploads[i].tex_coords.max[2] <= height
        /\ \A info \in StoredGlyphs :
              info.glyph_info # lossy_info_for(uploads[i].glyph) =>
                  ~Intersect(uploads[i].tex_coords, AllocatedRect(info))

\* a glyph uploaded to the right of another one in its row, up to the atlas
\* width
C38_Witness ==
    /\ ReturnedOk
    /\ Cardinality(StoredGlyphs) >= 2
    /\ \E i \in DOMAIN uploads :
          /\ uploads[i].tex_coords.min[1] > 0
          /\ uploads[i].tex_coords.max[1] = width

\* ------------------------------------------------ calls on an empty cache
\* C39: a cache_glyphs call that began with no glyph in the index does not
\* clear and retry and returns Adding, GlyphTooLarge or NoRoomForWholeQueue,
\* never Reordering; in every state every row holds a glyph, and the index is
\* empty exactly when there is no row.
C39_EmptyStartNeverReorders ==
    /\ (pc # "idle" /\ DOMAIN pre.all_glyphs = {}) => (pc # "retry" /\ ~retrying)
    /\ (Returned /\ DOMAIN pre.all_glyphs = {}) =>
          result \in {"Adding", "GlyphTooLarge", "NoRoomForWholeQueue"}
    /\ \A i \in DOMAIN rows : rows[i].glyphs # <<>>
    /\ (DOMAIN all_glyphs = {}) <=> (rows = <<>>)

\* a call on an empty cache placed a glyph, found no room for the next with
\* every row in use, and returned NoRoomForWholeQueue
C39_Witness ==
    /\ Returned
    /\ DOMAIN pre.all_glyphs = {}
    /\ pre.rows = <<>>
    /\ result = "NoRoomForWholeQueue"
    /\ rows # <<>>
    /\ evicted = {}

\* ------------------------------------------------- layouts that complete
\* C40: the layout of no text underflows an unsigned subtraction or indexes
\* out of range, the empty text, text of whitespace only and text that begins
\* with a newline included, for every alignment and max_width; a text
\* without a word gives an empty layout.
C40_NoUnderflow ==
    advanced_layout # NoLayout =>
        /\ ~advanced_layout.overflowed
        /\ ~advanced_layout.panicked
        /\ (advanced_layout.done /\ maximal_runs(advanced_layout.original_str, 1, <<>>) = <<>>) =>
              advanced_layout.layout = <<>>

====
